---- MODULE Spec2Model ----
(***************************************************************************)
(* Stock ledger and order state machine of the e-commerce back office      *)
(* (backend/routers/inventory.py, backend/routers/orders.py).              *)
(*                                                                         *)
(* Every handler is a request running in a slot.  The database is the      *)
(* committed tables below.  `async with prisma.tx()` is an interactive     *)
(* transaction at the database's default isolation (PostgreSQL READ        *)
(* COMMITTED; no handler asks for another level or for SELECT ... FOR      *)
(* UPDATE): a statement inside a transaction reads the committed rows      *)
(* plus the transaction's own writes, an UPDATE of a row waits while       *)
(* another open transaction holds a write on that row, and all writes of   *)
(* the transaction become visible together at commit or vanish together    *)
(* when an exception leaves the `async with` block.                        *)
(***************************************************************************)
EXTENDS Integers, Sequences, FiniteSets, TLC

VARIABLES
    product,             \* product.stock, committed           (Product table)
    productvariant,      \* productvariant.stock, committed    (ProductVariant table)
    stockadjustment,     \* StockAdjustment rows in creation order; tx = owner slot, 0 = committed
    order,               \* committed Order rows, by id
    orderitem,           \* committed OrderItem rows of each order
    orderstatushistory,  \* OrderStatusHistory rows in creation order; tx as above
    req,                 \* the request running (or last run) in each slot
    started,             \* requests received so far; also the clock read by utcnow()
    nextOrder,           \* next fresh order id
    user,                \* committed User rows, by id                (User table)
    otpverification,     \* OtpVerification rows of the signup email, in creation order
    emailVerified        \* ids of the User rows whose emailVerified is true

vars == <<product, productvariant, stockadjustment, order, orderitem,
          orderstatushistory, req, started, nextOrder, user, otpverification,
          emailVerified>>

----------------------------------------------------------------------------
(* Bounds of the model *)

MaxQty == 2
MaxReqs == 3
MaxRestoreReqs == 4
MaxBulkReqs == 2
ScenarioStock == 3
ScenarioQtyA == 3
ScenarioQtyB == 1
InitStock == 1
MaxCost == 1
MaxOtpReqs == 7

Slots == {1, 2}
ProductIds == {"A", "B"}
VariantIds == {"V"}

\* an id that names no row of its table
MissingId == "X"
\* None / NULL for an optional id
NoId == ""

----------------------------------------------------------------------------
(* Request inputs *)

\* OrderItemCreate: product_id and variant_id optional, quantity > 0, unit_price > 0
OrderItemCreate(pid, vid, price, qty) ==
    [productId |-> pid, variantId |-> vid, unitPrice |-> price, quantity |-> qty]

\* Optional[float]: <<>> is None, <<v>> a value
Optional(S) == {<<>>} \cup {<<v>> : v \in S}
IsNone(o) == Len(o) = 0

----------------------------------------------------------------------------
(* Rows *)

OrderRow(status, subtotal, shipping, tax, discount, total) ==
    [status |-> status, subtotal |-> subtotal, shippingCost |-> shipping,
     taxAmount |-> tax, discountAmount |-> discount, total |-> total,
     shippedAt |-> 0, deliveredAt |-> 0, cancelledAt |-> 0]

NoOrderRow == OrderRow("PENDING", 0, 0, 0, 0, 0)

\* reason: "order" for f"Order {n}", "cancelled" for f"Order {n} cancelled",
\* "restored" for f"Order {n} restored", "manual" for a caller's free text
AdjustmentRow(pid, vid, type, qty, prev, new, oid, reason, tx) ==
    [productId |-> pid, variantId |-> vid, type |-> type, quantity |-> qty,
     previousStock |-> prev, newStock |-> new, orderId |-> oid, reason |-> reason,
     tx |-> tx]

HistoryRow(oid, from, to, tx) ==
    [orderId |-> oid, fromStatus |-> from, toStatus |-> to, tx |-> tx]

\* update_dict of update_user_approval with no key set; a key is <<>> when unset
NoUpdate == [isApproved |-> <<>>, role |-> "", permissions |-> <<>>]

IdleReq ==
    [kind |-> "idle", pc |-> "done", outcome |-> "", items |-> <<>>, idx |-> 0,
     orderId |-> 0, productId |-> NoId, variantId |-> NoId, quantity |-> 0,
     previousStock |-> 0, status |-> "PENDING", existing |-> NoOrderRow,
     shipping |-> <<>>, tax |-> <<>>, discount |-> <<>>,
     stamp |-> "", now |-> 0,
     wProduct |-> <<>>, wVariant |-> <<>>, wOrder |-> <<>>, newOrder |-> <<>>,
     userId |-> NoId, module |-> "", level |-> "", update |-> NoUpdate, role |-> "", permissions |-> <<>>,
     adjustments |-> <<>>, errors |-> <<>>,
     type |-> "", otp_record |-> <<>>, existing_user |-> <<>>]

----------------------------------------------------------------------------
(* prisma.tx(): reads, row locks, commit, rollback *)

\* tx.product.find_unique inside the transaction of slot s
TxProductStock(s, pid) ==
    IF pid \in DOMAIN req[s].wProduct THEN req[s].wProduct[pid] ELSE product[pid]

TxVariantStock(s, vid) ==
    IF vid \in DOMAIN req[s].wVariant THEN req[s].wVariant[vid] ELSE productvariant[vid]

\* an UPDATE waits for the open transaction that wrote the row
ProductLocked(s, pid) == \E t \in Slots \ {s} : pid \in DOMAIN req[t].wProduct
VariantLocked(s, vid) == \E t \in Slots \ {s} : vid \in DOMAIN req[t].wVariant
OrderLocked(s, oid) == \E t \in Slots \ {s} : oid \in DOMAIN req[t].wOrder

Overlay(table, w) == [k \in DOMAIN table |-> IF k \in DOMAIN w THEN w[k] ELSE table[k]]

CommitRows(rows, s) == [i \in DOMAIN rows |-> [rows[i] EXCEPT !.tx = IF @ = s THEN 0 ELSE @]]

Committed(rows) == SelectSeq(rows, LAMBDA r : r.tx = 0)

\* models/auth_models.py: PERMISSION_MODULES and DEFAULT_STAFF_PERMISSIONS
PERMISSION_MODULES ==
    {"products", "orders", "inventory", "categories", "attributes", "analytics", "users"}

DEFAULT_STAFF_PERMISSIONS ==
    [m \in PERMISSION_MODULES |-> IF m = "users" THEN "none" ELSE "view"]

\* a value of the JSON column User.permissions: NULL, an object from module
\* names to levels, or some other JSON value (a non-empty string or array)
JsonNull == [kind |-> "null", map |-> <<>>]
Json(map) == [kind |-> "dict", map |-> map]
JsonOther == [kind |-> "other", map |-> <<>>]

\* Python truth value of a dict or a JSON value
DictTruthy(map) == DOMAIN map # {}
Truthy(json) == json.kind = "other" \/ (json.kind = "dict" /\ DictTruthy(json.map))

UserRow(role, isApproved, permissions) ==
    [role |-> role, isApproved |-> isApproved, permissions |-> permissions]

\* the administrator that exists when the service starts
InitUsers == ("root" :> UserRow("ADMIN", TRUE, JsonNull))

----------------------------------------------------------------------------
(* Initial state: a catalogue with stock on hand, no orders, empty ledger *)

Init ==
    /\ product = [p \in ProductIds |-> InitStock]
    /\ productvariant = [v \in VariantIds |-> InitStock]
    /\ stockadjustment = <<>>
    /\ order = <<>>
    /\ orderitem = <<>>
    /\ orderstatushistory = <<>>
    /\ req = [s \in Slots |-> IdleReq]
    /\ started = 0
    /\ nextOrder = 1
    /\ user = InitUsers
    /\ otpverification = <<>>
    /\ emailVerified = {}

\* a request is taken by the first slot whose last request has returned
Free(s) ==
    /\ req[s].pc = "done"
    /\ \A t \in Slots : t < s => req[t].pc # "done"

----------------------------------------------------------------------------
(* Stock ledger arithmetic *)

\* create_stock_adjustment, bulk_stock_adjustment: new_stock = current_stock + quantity
AdjustNewStock(current_stock, quantity) == current_stock + quantity

\* a plausible slip: the guard lets -1 through
NegativeStockOffByOne(new_stock) == new_stock < 0 - 1

\* the guard `if new_stock < 0: raise HTTPException(400, ...)`
NegativeStock(new_stock) == new_stock < 0

\* quick_stock_update: quantity_change = new_stock - current_stock
\* a plausible slip: the difference is taken the other way round
QuantityChangeReversed(new_stock, current_stock) == current_stock - new_stock

QuantityChange(new_stock, current_stock) == new_stock - current_stock

\* a request leaves its slot: the reply is sent, nothing of the transaction is left
Return(s, outcome) ==
    [IdleReq EXCEPT !.kind = req[s].kind, !.outcome = outcome,
                    !.orderId = req[s].orderId, !.items = req[s].items]

\* the stock counter a request addresses: the variant when variant_id is given
WriteStock(s, pid, vid, new_stock) ==
    IF vid # NoId
    THEN /\ productvariant' = [productvariant EXCEPT ![vid] = new_stock]
         /\ UNCHANGED product
    ELSE /\ product' = [product EXCEPT ![pid] = new_stock]
         /\ UNCHANGED productvariant

TargetLocked(s, pid, vid) ==
    IF vid # NoId THEN VariantLocked(s, vid) ELSE ProductLocked(s, pid)

TargetExists(pid, vid) ==
    IF vid # NoId THEN vid \in DOMAIN productvariant ELSE pid \in DOMAIN product

CommittedStock(pid, vid) ==
    IF vid # NoId THEN productvariant[vid] ELSE product[pid]

----------------------------------------------------------------------------
(* POST /inventory/adjust *)

\* the request arrives, is validated, opens its transaction and reads the counter
CreateStockAdjustmentRead(s, pid, vid, quantity) ==
    /\ Free(s)
    /\ started' = started + 1
    /\ LET r == [IdleReq EXCEPT !.kind = "create_stock_adjustment", !.productId = pid,
                                !.variantId = vid, !.quantity = quantity]
       IN  req' = [req EXCEPT ![s] =
                IF pid = NoId /\ vid = NoId
                THEN [r EXCEPT !.outcome = "BadRequest"]
                ELSE IF ~TargetExists(pid, vid)
                THEN [r EXCEPT !.outcome = "NotFound"]
                ELSE [r EXCEPT !.pc = "adjust_write",
                               !.previousStock = CommittedStock(pid, vid)]]
    /\ UNCHANGED <<product, productvariant, stockadjustment, order, orderitem,
                   orderstatushistory, nextOrder, user, otpverification,
                   emailVerified>>

\* new_stock is computed and checked; the counter and the ledger row are written
\* and the transaction commits
CreateStockAdjustmentWrite(s) ==
    /\ req[s].kind = "create_stock_adjustment"
    /\ req[s].pc = "adjust_write"
    /\ LET r == req[s]
           new_stock == AdjustNewStock(r.previousStock, r.quantity)
       IN  IF NegativeStock(new_stock)
           THEN /\ req' = [req EXCEPT ![s] = Return(s, "NegativeStock")]
                /\ UNCHANGED <<product, productvariant, stockadjustment>>
           ELSE /\ ~TargetLocked(s, r.productId, r.variantId)
                /\ WriteStock(s, r.productId, r.variantId, new_stock)
                /\ stockadjustment' = Append(stockadjustment,
                       AdjustmentRow(r.productId, r.variantId, "RESTOCK", r.quantity,
                                     r.previousStock, new_stock, 0, "manual", 0))
                /\ req' = [req EXCEPT ![s] = Return(s, "ok")]
    /\ UNCHANGED <<order, orderitem, orderstatushistory, started, nextOrder, user, otpverification,
                   emailVerified>>

----------------------------------------------------------------------------
(* POST /inventory/bulk-adjust *)

\* BulkStockAdjustmentItem
BulkStockAdjustmentItem(pid, vid, quantity) ==
    [productId |-> pid, variantId |-> vid, quantity |-> quantity]

BulkStopAtFirstError(r, failed) ==
    IF failed \/ r.idx >= Len(r.items)
    THEN [r EXCEPT !.pc = "done", !.outcome = "ok", !.previousStock = 0]
    ELSE [r EXCEPT !.pc = "bulk_item", !.idx = @ + 1, !.previousStock = 0]

\* `continue`, or the end of the loop body: the next item, or the response
\* after the last one
BulkNextItem(r, failed) ==
    IF r.idx >= Len(r.items)
    THEN [r EXCEPT !.pc = "done", !.outcome = "ok", !.previousStock = 0]
    ELSE [r EXCEPT !.pc = "bulk_item", !.idx = @ + 1, !.previousStock = 0]

\* errors.append({"item": ..., "error": ...}); continue
BulkError(r) == BulkNextItem([r EXCEPT !.errors = Append(@, r.idx)], TRUE)

\* the request arrives with its items
BulkStockAdjustmentBegin(s, items) ==
    /\ Free(s)
    /\ started' = started + 1
    /\ req' = [req EXCEPT ![s] =
            [IdleReq EXCEPT !.kind = "bulk_stock_adjustment", !.pc = "bulk_item",
                            !.items = items, !.idx = 1]]
    /\ UNCHANGED <<product, productvariant, stockadjustment, order, orderitem,
                   orderstatushistory, nextOrder, user, otpverification,
                   emailVerified>>

\* the item's ids are tested, its transaction opens and reads the counter
BulkStockAdjustmentRead(s) ==
    /\ req[s].kind = "bulk_stock_adjustment"
    /\ req[s].pc = "bulk_item"
    /\ LET r == req[s]
           item == r.items[r.idx]
       IN  req' = [req EXCEPT ![s] =
               IF item.productId = NoId /\ item.variantId = NoId THEN BulkError(r)
               ELSE IF ~TargetExists(item.productId, item.variantId) THEN BulkError(r)
               ELSE [r EXCEPT !.pc = "bulk_write",
                              !.previousStock =
                                  CommittedStock(item.productId, item.variantId)]]
    /\ UNCHANGED <<product, productvariant, stockadjustment, order, orderitem,
                   orderstatushistory, started, nextOrder, user, otpverification,
                   emailVerified>>

\* new_stock is computed and checked; the counter and the ledger row are
\* written, the response entry is appended and the item's transaction commits
BulkStockAdjustmentWrite(s) ==
    /\ req[s].kind = "bulk_stock_adjustment"
    /\ req[s].pc = "bulk_write"
    /\ LET r == req[s]
           item == r.items[r.idx]
           new_stock == AdjustNewStock(r.previousStock, item.quantity)
       IN  IF NegativeStock(new_stock)
           THEN /\ req' = [req EXCEPT ![s] = BulkError(r)]
                /\ UNCHANGED <<product, productvariant, stockadjustment>>
           ELSE /\ ~TargetLocked(s, item.productId, item.variantId)
                /\ WriteStock(s, item.productId, item.variantId, new_stock)
                /\ stockadjustment' = Append(stockadjustment,
                       AdjustmentRow(item.productId, item.variantId, "RESTOCK",
                                     item.quantity, r.previousStock, new_stock, 0,
                                     "manual", 0))
                /\ req' = [req EXCEPT ![s] =
                        BulkNextItem([r EXCEPT !.adjustments = Append(@, r.idx)], FALSE)]
    /\ UNCHANGED <<order, orderitem, orderstatushistory, started, nextOrder, user, otpverification,
                   emailVerified>>

----------------------------------------------------------------------------
(* PATCH /inventory/quick-update/{product_id} *)

QuickStockUpdateRead(s, pid, vid, new_stock) ==
    /\ Free(s)
    /\ started' = started + 1
    /\ LET r == [IdleReq EXCEPT !.kind = "quick_stock_update", !.productId = pid,
                                !.variantId = vid, !.quantity = new_stock]
       IN  req' = [req EXCEPT ![s] =
                IF ~TargetExists(pid, vid)
                THEN [r EXCEPT !.outcome = "NotFound"]
                ELSE [r EXCEPT !.pc = "quick_write",
                               !.previousStock = CommittedStock(pid, vid)]]
    /\ UNCHANGED <<product, productvariant, stockadjustment, order, orderitem,
                   orderstatushistory, nextOrder, user, otpverification,
                   emailVerified>>

QuickStockUpdateWrite(s) ==
    /\ req[s].kind = "quick_stock_update"
    /\ req[s].pc = "quick_write"
    /\ LET r == req[s]
       IN  /\ ~TargetLocked(s, r.productId, r.variantId)
           /\ WriteStock(s, r.productId, r.variantId, r.quantity)
           /\ stockadjustment' = Append(stockadjustment,
                  AdjustmentRow(r.productId, r.variantId, "CORRECTION",
                                QuantityChange(r.quantity, r.previousStock),
                                r.previousStock, r.quantity, 0, "manual", 0))
           /\ req' = [req EXCEPT ![s] = Return(s, "ok")]
    /\ UNCHANGED <<order, orderitem, orderstatushistory, started, nextOrder, user, otpverification,
                   emailVerified>>

----------------------------------------------------------------------------
(* Statements shared by the order handlers' transactions *)

\* the ledger row is created but the counter's update is left out
TxWriteStockLost(r, pid, vid, new_stock) == r

\* tx.product.update / tx.productvariant.update: the write stays in the transaction
TxWriteStock(r, pid, vid, new_stock) ==
    IF vid # NoId
    THEN [r EXCEPT !.wVariant = (vid :> new_stock) @@ @]
    ELSE [r EXCEPT !.wProduct = (pid :> new_stock) @@ @]

TxStock(s, pid, vid) ==
    IF vid # NoId THEN TxVariantStock(s, vid) ELSE TxProductStock(s, pid)

\* `if item.variant_id: ... if variant:` / `elif item.product_id: ... if product_item:`
\* an item without ids, or whose row is not found, is passed over
ItemHasTarget(item) ==
    IF item.variantId # NoId
    THEN item.variantId \in DOMAIN productvariant
    ELSE item.productId # NoId /\ item.productId \in DOMAIN product

\* some item names a variant or a product of which there is no row
Dangling(items) ==
    \E k \in DOMAIN items :
        \/ items[k].variantId # NoId /\ items[k].variantId \notin DOMAIN productvariant
        \/ items[k].productId # NoId /\ items[k].productId \notin DOMAIN product

\* the loop moves to the next item, or leaves the loop
NextItem(r, after) ==
    IF r.idx + 1 > Len(r.items)
    THEN [r EXCEPT !.idx = r.idx + 1, !.pc = after]
    ELSE [r EXCEPT !.idx = r.idx + 1, !.pc = "item_find"]

\* find_unique of the current item's row
ItemFind(s, after) ==
    /\ req[s].pc = "item_find"
    /\ LET r == req[s]
           item == r.items[r.idx]
       IN  req' = [req EXCEPT ![s] =
                IF ItemHasTarget(item)
                THEN [r EXCEPT !.pc = "item_write",
                               !.previousStock = TxStock(s, item.productId, item.variantId)]
                ELSE NextItem(r, after)]
    /\ UNCHANGED <<product, productvariant, stockadjustment, order, orderitem,
                   orderstatushistory, started, nextOrder, user, otpverification,
                   emailVerified>>

\* update of the counter and create of the ledger row for the current item
ItemWrite(s, type, quantity, new_stock, reason, after) ==
    /\ req[s].pc = "item_write"
    /\ LET r == req[s]
           item == r.items[r.idx]
       IN  /\ ~TargetLocked(s, item.productId, item.variantId)
           /\ req' = [req EXCEPT ![s] =
                  NextItem(TxWriteStock(r, item.productId, item.variantId, new_stock), after)]
           /\ stockadjustment' = Append(stockadjustment,
                  AdjustmentRow(item.productId, item.variantId, type, quantity,
                                r.previousStock, new_stock, r.orderId, reason, s))
    /\ UNCHANGED <<product, productvariant, order, orderitem, orderstatushistory,
                   started, nextOrder, user, otpverification,
                   emailVerified>>

\* leaving `async with prisma.tx()` normally
Commit(s) ==
    /\ product' = Overlay(product, req[s].wProduct)
    /\ productvariant' = Overlay(productvariant, req[s].wVariant)
    /\ stockadjustment' = CommitRows(stockadjustment, s)

----------------------------------------------------------------------------
(* POST /orders *)

\* subtotal = sum(item.unit_price * item.quantity for item in order_data.items)
RECURSIVE Subtotal(_)
Subtotal(items) ==
    IF items = <<>> THEN 0
    ELSE Head(items).unitPrice * Head(items).quantity + Subtotal(Tail(items))

\* total = subtotal + shipping_cost + tax_amount - discount_amount
OrderTotal(subtotal, shipping_cost, tax_amount, discount_amount) ==
    subtotal + shipping_cost + tax_amount - discount_amount

\* new_stock = previous_stock - item.quantity
SaleNewStock(previous_stock, quantity) == previous_stock - quantity

\* the request arrives; tx.order.create and tx.orderitem.create_many.
\* The handler also reads order_data.user_id and order_data.discount_code_id,
\* which OrderCreate does not declare; the body is modelled as written, as
\* it runs for a request object that carries them.
\* Whether OrderItem.productId and variantId are foreign keys is settled by
\* the Prisma schema, which is not part of the sources: when an item names a
\* row that does not exist, create_many either raises, which leaves the
\* transaction and rolls it back, or stores the item.
CreateOrderBegin(s, items, shipping_cost, tax_amount, discount_amount) ==
    /\ Free(s)
    /\ started' = started + 1
    /\ \E foreign_key \in BOOLEAN :
           IF foreign_key /\ Dangling(items)
           THEN /\ req' = [req EXCEPT ![s] =
                       [IdleReq EXCEPT !.kind = "create_order", !.outcome = "ForeignKey"]]
                /\ UNCHANGED nextOrder
           ELSE /\ nextOrder' = nextOrder + 1
                /\ LET subtotal == Subtotal(items)
                       total == OrderTotal(subtotal, shipping_cost, tax_amount,
                                           discount_amount)
                   IN  req' = [req EXCEPT ![s] =
                            [IdleReq EXCEPT !.kind = "create_order", !.pc = "item_find",
                                            !.items = items, !.idx = 1,
                                            !.orderId = nextOrder,
                                            !.newOrder = <<OrderRow("PENDING", subtotal,
                                                shipping_cost, tax_amount, discount_amount,
                                                total)>>]]
    /\ UNCHANGED <<product, productvariant, stockadjustment, order, orderitem,
                   orderstatushistory, user, otpverification,
                   emailVerified>>

CreateOrderFindItem(s) ==
    /\ req[s].kind = "create_order"
    /\ ItemFind(s, "history")

CreateOrderReduceStock(s) ==
    /\ req[s].kind = "create_order"
    /\ req[s].pc = "item_write"
    /\ LET q == req[s].items[req[s].idx].quantity
       IN  ItemWrite(s, "SALE", 0 - q, SaleNewStock(req[s].previousStock, q), "order",
                     "history")

\* the initial history row is created and the transaction commits
CreateOrderCommit(s) ==
    /\ req[s].kind = "create_order"
    /\ req[s].pc = "history"
    /\ Commit(s)
    /\ order' = (req[s].orderId :> req[s].newOrder[1]) @@ order
    /\ orderitem' = (req[s].orderId :> req[s].items) @@ orderitem
    /\ orderstatushistory' = Append(CommitRows(orderstatushistory, s),
                                    HistoryRow(req[s].orderId, "", "PENDING", 0))
    /\ req' = [req EXCEPT ![s] = Return(s, "ok")]
    /\ UNCHANGED <<started, nextOrder, user, otpverification,
                   emailVerified>>

----------------------------------------------------------------------------
(* PATCH /orders/{order_id}/status *)

\* update_data: the timestamp column the new status stamps, if still unset
Stamp(new_status, existing) ==
    IF new_status = "SHIPPED" /\ existing.shippedAt = 0 THEN "shippedAt"
    ELSE IF new_status = "DELIVERED" /\ existing.deliveredAt = 0 THEN "deliveredAt"
    ELSE IF new_status = "CANCELLED" /\ existing.cancelledAt = 0 THEN "cancelledAt"
    ELSE ""

\* tx.order.update(data=update_data): only the columns of update_data change
ApplyStatus(row, new_status, stamp, now) ==
    [row EXCEPT !.status = new_status,
                !.shippedAt = IF stamp = "shippedAt" THEN now ELSE @,
                !.deliveredAt = IF stamp = "deliveredAt" THEN now ELSE @,
                !.cancelledAt = IF stamp = "cancelledAt" THEN now ELSE @]

\* `if new_status == "CANCELLED" and old_status != "CANCELLED"`
IsCancel(old_status, new_status) == new_status = "CANCELLED" /\ old_status # "CANCELLED"

\* a plausible slip: every update to a status other than CANCELLED deducts
IsRestoreAlways(old_status, new_status) == new_status # "CANCELLED"

\* `if old_status == "CANCELLED" and new_status != "CANCELLED"`
IsRestore(old_status, new_status) == old_status = "CANCELLED" /\ new_status # "CANCELLED"

\* a plausible slip: the cancellation leaves the counter as it is
ReturnNewStockKeeps(previous_stock, quantity) == previous_stock

\* cancellation: new_stock = previous_stock + item.quantity
ReturnNewStock(previous_stock, quantity) == previous_stock + quantity

\* a plausible slip: the un-cancellation returns the stock once more
RestoreNewStockAdds(previous_stock, quantity) == previous_stock + quantity

\* un-cancellation: new_stock = previous_stock - item.quantity
RestoreNewStock(previous_stock, quantity) == previous_stock - quantity

\* a plausible slip: no history row when the status does not change
AddStatusHistoryOnChange(rows, r, s) ==
    IF r.existing.status = r.status THEN rows
    ELSE Append(rows, HistoryRow(r.orderId, r.existing.status, r.status, s))

\* tx.orderstatushistory.create(fromStatus = old_status, toStatus = new_status)
AddStatusHistory(rows, r, s) ==
    Append(rows, HistoryRow(r.orderId, r.existing.status, r.status, s))

\* the request arrives; find_unique of the order, update_data is built
UpdateOrderStatusFind(s, oid, new_status) ==
    /\ Free(s)
    /\ started' = started + 1
    /\ LET r == [IdleReq EXCEPT !.kind = "update_order_status", !.orderId = oid,
                                !.status = new_status]
       IN  req' = [req EXCEPT ![s] =
                IF oid \notin DOMAIN order
                THEN [r EXCEPT !.outcome = "NotFound"]
                ELSE [r EXCEPT !.pc = "status_update", !.existing = order[oid],
                               !.stamp = Stamp(new_status, order[oid]),
                               !.now = started + 1]]
    /\ UNCHANGED <<product, productvariant, stockadjustment, order, orderitem,
                   orderstatushistory, nextOrder, user, otpverification,
                   emailVerified>>

\* the transaction opens: tx.order.update and tx.orderstatushistory.create
UpdateOrderStatusUpdate(s) ==
    /\ req[s].kind = "update_order_status"
    /\ req[s].pc = "status_update"
    /\ LET r == req[s]
           old_status == r.existing.status
       IN  IF r.orderId \notin DOMAIN order
           THEN \* RecordNotFoundError leaves the transaction
                /\ req' = [req EXCEPT ![s] = Return(s, "NotFound")]
                /\ UNCHANGED orderstatushistory
           ELSE /\ ~OrderLocked(s, r.orderId)
                /\ req' = [req EXCEPT ![s] =
                       [r EXCEPT !.wOrder = (r.orderId :>
                                     ApplyStatus(order[r.orderId], r.status, r.stamp, r.now)),
                                 !.pc = IF IsCancel(old_status, r.status)
                                           \/ IsRestore(old_status, r.status)
                                        THEN "status_items" ELSE "status_commit"]]
                /\ orderstatushistory' = AddStatusHistory(orderstatushistory, r, s)
    /\ UNCHANGED <<product, productvariant, stockadjustment, order, orderitem,
                   started, nextOrder, user, otpverification,
                   emailVerified>>

\* order_items = await tx.orderitem.find_many(where={"orderId": order_id})
UpdateOrderStatusItems(s) ==
    /\ req[s].kind = "update_order_status"
    /\ req[s].pc = "status_items"
    /\ LET r == req[s]
           items == IF r.orderId \in DOMAIN orderitem THEN orderitem[r.orderId] ELSE <<>>
       IN  req' = [req EXCEPT ![s] =
                [r EXCEPT !.items = items, !.idx = 1,
                          !.pc = IF items = <<>> THEN "status_commit" ELSE "item_find"]]
    /\ UNCHANGED <<product, productvariant, stockadjustment, order, orderitem,
                   orderstatushistory, started, nextOrder, user, otpverification,
                   emailVerified>>

UpdateOrderStatusFindItem(s) ==
    /\ req[s].kind = "update_order_status"
    /\ ItemFind(s, "status_commit")

\* restore stock of a cancelled order's item
UpdateOrderStatusReturnStock(s) ==
    /\ req[s].kind = "update_order_status"
    /\ req[s].pc = "item_write"
    /\ IsCancel(req[s].existing.status, req[s].status)
    /\ LET q == req[s].items[req[s].idx].quantity
       IN  ItemWrite(s, "RETURN", q, ReturnNewStock(req[s].previousStock, q),
                     "cancelled", "status_commit")

\* reduce stock again for an un-cancelled order's item
UpdateOrderStatusReduceStock(s) ==
    /\ req[s].kind = "update_order_status"
    /\ req[s].pc = "item_write"
    /\ IsRestore(req[s].existing.status, req[s].status)
    /\ LET q == req[s].items[req[s].idx].quantity
       IN  ItemWrite(s, "SALE", 0 - q, RestoreNewStock(req[s].previousStock, q),
                     "restored", "status_commit")

UpdateOrderStatusCommit(s) ==
    /\ req[s].kind = "update_order_status"
    /\ req[s].pc = "status_commit"
    /\ Commit(s)
    /\ order' = Overlay(order, req[s].wOrder)
    /\ orderstatushistory' = CommitRows(orderstatushistory, s)
    /\ req' = [req EXCEPT ![s] = Return(s, "ok")]
    /\ UNCHANGED <<orderitem, started, nextOrder, user, otpverification,
                   emailVerified>>

----------------------------------------------------------------------------
(* PATCH /orders/{order_id} *)

CostInputs == {0, MaxCost}

\* a plausible slip: the discount is left out of the recomputed total
UpdateTotalNoDiscount(subtotal, shipping_cost, tax_amount, discount_amount) ==
    subtotal + shipping_cost + tax_amount

\* update_data["total"] = existing_order.subtotal + shipping_cost + tax_amount - discount_amount
UpdateTotal(subtotal, shipping_cost, tax_amount, discount_amount) ==
    subtotal + shipping_cost + tax_amount - discount_amount

\* `x if x is not None else existing`
OrElse(o, existing) == IF IsNone(o) THEN existing ELSE o[1]

\* the cost columns of update_data
UpdateCosts(row, existing, shipping, tax, discount) ==
    IF IsNone(shipping) /\ IsNone(tax) /\ IsNone(discount)
    THEN row
    ELSE LET shipping_cost == OrElse(shipping, existing.shippingCost)
             tax_amount == OrElse(tax, existing.taxAmount)
             discount_amount == OrElse(discount, existing.discountAmount)
         IN  [row EXCEPT !.shippingCost = shipping_cost,
                         !.taxAmount = tax_amount,
                         !.discountAmount = discount_amount,
                         !.total = UpdateTotal(existing.subtotal, shipping_cost,
                                               tax_amount, discount_amount)]

\* the request arrives; find_unique of the order
UpdateOrderFind(s, oid, shipping, tax, discount) ==
    /\ Free(s)
    /\ started' = started + 1
    /\ LET r == [IdleReq EXCEPT !.kind = "update_order", !.orderId = oid,
                                !.shipping = shipping, !.tax = tax, !.discount = discount]
       IN  req' = [req EXCEPT ![s] =
                IF oid \notin DOMAIN order
                THEN [r EXCEPT !.outcome = "NotFound"]
                ELSE [r EXCEPT !.pc = "order_update", !.existing = order[oid]]]
    /\ UNCHANGED <<product, productvariant, stockadjustment, order, orderitem,
                   orderstatushistory, nextOrder, user, otpverification,
                   emailVerified>>

\* prisma.order.update(where={"id": order_id}, data=update_data)
UpdateOrderWrite(s) ==
    /\ req[s].kind = "update_order"
    /\ req[s].pc = "order_update"
    /\ LET r == req[s]
       IN  IF r.orderId \notin DOMAIN order
           THEN /\ req' = [req EXCEPT ![s] = Return(s, "NotFound")]
                /\ UNCHANGED order
           ELSE /\ ~OrderLocked(s, r.orderId)
                /\ order' = [order EXCEPT ![r.orderId] =
                       UpdateCosts(@, r.existing, r.shipping, r.tax, r.discount)]
                /\ req' = [req EXCEPT ![s] = Return(s, "ok")]
    /\ UNCHANGED <<product, productvariant, stockadjustment, orderitem,
                   orderstatushistory, started, nextOrder, user, otpverification,
                   emailVerified>>

----------------------------------------------------------------------------
(* POST /products and PATCH /products/{product_id} *)

\* the ids the database gives to the product and the variant that are created
NewProductId == "C"
NewVariantId == "W"

\* create_product: the category is looked up, then prisma.product.create
\* writes the product row with "stock": product_data.stock. No transaction
\* is open and no StockAdjustment row is written. variants holds the stock
\* of each variant of the request.
CreateProductCreate(s, category_found, stock, variants) ==
    /\ Free(s)
    /\ NewProductId \notin DOMAIN product
    /\ started' = started + 1
    /\ LET r == [IdleReq EXCEPT !.kind = "create_product", !.productId = NewProductId,
                                !.quantity = stock, !.items = variants]
       IN  IF ~category_found
           THEN /\ req' = [req EXCEPT ![s] = [r EXCEPT !.outcome = "NotFound"]]
                /\ UNCHANGED product
           ELSE /\ product' = (NewProductId :> stock) @@ product
                /\ req' = [req EXCEPT ![s] =
                       IF variants # <<>>
                       THEN [r EXCEPT !.pc = "create_variants"]
                       ELSE [r EXCEPT !.outcome = "ok"]]
    /\ UNCHANGED <<productvariant, stockadjustment, order, orderitem,
                   orderstatushistory, nextOrder, user, otpverification,
                   emailVerified>>

\* prisma.productvariant.create_many with "stock": var.stock
CreateProductVariants(s) ==
    /\ req[s].kind = "create_product"
    /\ req[s].pc = "create_variants"
    /\ productvariant' = (NewVariantId :> req[s].items[1]) @@ productvariant
    /\ req' = [req EXCEPT ![s] = Return(s, "ok")]
    /\ UNCHANGED <<product, stockadjustment, order, orderitem, orderstatushistory,
                   started, nextOrder, user, otpverification,
                   emailVerified>>

\* update_product: the product and, when it changes, the category are looked
\* up; then adjusted_by is computed from current_admin, a name that neither
\* the function (its parameter is current_user) nor the module binds, so the
\* handler raises NameError before its first write and answers 500.
UpdateProduct(s, pid, category_found, stock) ==
    /\ Free(s)
    /\ started' = started + 1
    /\ LET r == [IdleReq EXCEPT !.kind = "update_product", !.productId = pid,
                                !.quantity = stock]
       IN  req' = [req EXCEPT ![s] =
                IF pid \notin DOMAIN product \/ ~category_found
                THEN [r EXCEPT !.outcome = "NotFound"]
                ELSE [r EXCEPT !.outcome = "NameError"]]
    /\ UNCHANGED <<product, productvariant, stockadjustment, order, orderitem,
                   orderstatushistory, nextOrder, user, otpverification,
                   emailVerified>>

----------------------------------------------------------------------------
(* DELETE /orders/{order_id} *)

\* the request arrives; find_unique of the order
DeleteOrderFind(s, oid) ==
    /\ Free(s)
    /\ started' = started + 1
    /\ LET r == [IdleReq EXCEPT !.kind = "delete_order", !.orderId = oid]
       IN  req' = [req EXCEPT ![s] =
                IF oid \notin DOMAIN order
                THEN [r EXCEPT !.outcome = "NotFound"]
                ELSE [r EXCEPT !.pc = "delete_related"]]
    /\ UNCHANGED <<product, productvariant, stockadjustment, order, orderitem,
                   orderstatushistory, nextOrder, user, otpverification,
                   emailVerified>>

\* asyncio.gather runs the two delete_many in either order
AfterDeleteMany(pc, done) ==
    IF pc = "delete_related" THEN done ELSE "delete_order"

\* prisma.orderitem.delete_many(where={"orderId": order_id})
DeleteOrderItems(s) ==
    /\ req[s].kind = "delete_order"
    /\ req[s].pc \in {"delete_related", "history_deleted"}
    /\ orderitem' = [o \in DOMAIN orderitem \ {req[s].orderId} |-> orderitem[o]]
    /\ req' = [req EXCEPT ![s].pc = AfterDeleteMany(@, "items_deleted")]
    /\ UNCHANGED <<product, productvariant, stockadjustment, order, orderstatushistory,
                   started, nextOrder, user, otpverification,
                   emailVerified>>

\* prisma.orderstatushistory.delete_many(where={"orderId": order_id}): the
\* committed rows of the order go; rows of open transactions are not seen
DeleteOrderHistory(s) ==
    /\ req[s].kind = "delete_order"
    /\ req[s].pc \in {"delete_related", "items_deleted"}
    /\ orderstatushistory' =
           SelectSeq(orderstatushistory,
                     LAMBDA row : ~(row.orderId = req[s].orderId /\ row.tx = 0))
    /\ req' = [req EXCEPT ![s].pc = AfterDeleteMany(@, "history_deleted")]
    /\ UNCHANGED <<product, productvariant, stockadjustment, order, orderitem,
                   started, nextOrder, user, otpverification,
                   emailVerified>>

\* rows that still reference the order when it is deleted
OrderReferenced(oid) ==
    \/ oid \in DOMAIN orderitem
    \/ \E i \in DOMAIN orderstatushistory : orderstatushistory[i].orderId = oid

\* prisma.order.delete(where={"id": order_id}). It waits for a transaction
\* that updated the order. When rows written meanwhile still reference the
\* order, the foreign keys of the schema decide: the delete is refused, or
\* it cascades to those rows.
DeleteOrderDelete(s) ==
    /\ req[s].kind = "delete_order"
    /\ req[s].pc = "delete_order"
    /\ LET oid == req[s].orderId
       IN  IF oid \notin DOMAIN order
           THEN /\ req' = [req EXCEPT ![s] = Return(s, "NotFound")]
                /\ UNCHANGED <<order, orderitem, orderstatushistory>>
           ELSE /\ ~OrderLocked(s, oid)
                /\ \E cascade \in BOOLEAN :
                       IF OrderReferenced(oid) /\ ~cascade
                       THEN /\ req' = [req EXCEPT ![s] = Return(s, "ForeignKey")]
                            /\ UNCHANGED <<order, orderitem, orderstatushistory>>
                       ELSE /\ order' = [o \in DOMAIN order \ {oid} |-> order[o]]
                            /\ orderitem' = [o \in DOMAIN orderitem \ {oid} |-> orderitem[o]]
                            /\ orderstatushistory' =
                                   SelectSeq(orderstatushistory,
                                             LAMBDA row : row.orderId # oid)
                            /\ req' = [req EXCEPT ![s] = Return(s, "ok")]
    /\ UNCHANGED <<product, productvariant, stockadjustment, started, nextOrder, user, otpverification,
                   emailVerified>>

----------------------------------------------------------------------------
(* check_permission(module, required_level): the dependency of every route *)

\* get_role_string(db_user.role): the value of the role enum
GetRoleString(role) == role

\* permission_hierarchy.get(level, default)
PermissionHierarchy(level, default) ==
    CASE level = "none" -> 0
      [] level = "view" -> 1
      [] level = "edit" -> 2
      [] OTHER -> default

LevelBelowExact(user_level, required) == user_level # required

\* if user_level < required: raise 403
LevelBelow(user_level, required) == user_level < required

\* a plausible slip: a missing key falls back to the default of the module
ModuleLevelDefault(map, module) ==
    IF module \in DOMAIN map THEN map[module] ELSE DEFAULT_STAFF_PERMISSIONS[module]

\* permissions.get(module, "none")
ModuleLevel(map, module) ==
    IF module \in DOMAIN map THEN map[module] ELSE "none"

\* a plausible slip: the two messages are exchanged
DenialReasonSwapped(user_level) ==
    IF user_level = 0 THEN "ReadOnly" ELSE "NoAccess"

\* `if user_level == 0`: "You don't have access to {module}", else
\* "You have read-only access to {module}. Edit permission required."
DenialReason(user_level) ==
    IF user_level = 0 THEN "NoAccess" ELSE "ReadOnly"

\* a plausible slip: the isApproved test of STAFF is left out
PermissionCheckerNoApproval(db_user, module, required_level) ==
    IF db_user.role = "ADMIN" THEN "Allowed"
    ELSE IF db_user.role = "CUSTOMER" THEN "AccessDenied"
    ELSE IF /\ db_user.permissions.kind = "dict"
            /\ module \in DOMAIN db_user.permissions.map
            /\ db_user.permissions.map[module] \in {"view", "edit"}
         THEN "Allowed"
         ELSE "NoAccess"

PermissionCheckerApprovalFirst(db_user, module, required_level) ==
    IF ~db_user.isApproved THEN "PendingApproval" ELSE "Allowed"

\* permission_checker, once db_user is found: "Allowed" or the reason of the 403
PermissionChecker(db_user, module, required_level) ==
    LET role_str == GetRoleString(db_user.role)
    IN  IF role_str = "ADMIN" THEN "Allowed"
        ELSE IF role_str = "CUSTOMER" THEN "AccessDenied"
        ELSE IF role_str = "STAFF" THEN
            IF ~db_user.isApproved THEN "PendingApproval"
            ELSE LET permissions == IF Truthy(db_user.permissions)
                                    THEN db_user.permissions
                                    ELSE Json(DEFAULT_STAFF_PERMISSIONS)
                 IN  IF permissions.kind # "dict"
                     THEN "PermissionCheckFailed"    \* .get raises; except Exception -> 403
                     ELSE LET user_permission == ModuleLevel(permissions.map, module)
                              user_level == PermissionHierarchy(user_permission, 0)
                              required == PermissionHierarchy(required_level, 1)
                          IN  IF LevelBelow(user_level, required)
                              THEN DenialReason(user_level)
                              ELSE "Allowed"
        ELSE "AccessDenied"

\* the detail of the HTTPException(403) behind each outcome; none when allowed
Detail(outcome, module) ==
    CASE outcome = "UserNotFound" -> <<"User not found">>
      [] outcome = "AccessDenied" -> <<"Access denied">>
      [] outcome = "PendingApproval" -> <<"Your account is pending approval">>
      [] outcome = "NoAccess" -> <<"You don't have access to ", module>>
      [] outcome = "ReadOnly" ->
             <<"You have read-only access to ", module, ". Edit permission required.">>
      [] outcome = "PermissionCheckFailed" -> <<"Permission check failed: ">>
      [] OTHER -> <<>>

AuthReturn(kind, outcome, uid, module, level) ==
    [IdleReq EXCEPT !.kind = kind, !.outcome = outcome, !.userId = uid,
                    !.module = module, !.level = level]

\* a route guarded by check_permission(module, required_level) is called by uid
PermissionCheck(s, uid, module, required_level) ==
    /\ Free(s)
    /\ started' = started + 1
    /\ req' = [req EXCEPT ![s] =
            AuthReturn("permission_checker",
                       IF uid \notin DOMAIN user THEN "UserNotFound"
                       ELSE PermissionChecker(user[uid], module, required_level),
                       uid, module, required_level)]
    /\ UNCHANGED <<product, productvariant, stockadjustment, order, orderitem,
                   orderstatushistory, nextOrder, user, otpverification,
                   emailVerified>>

----------------------------------------------------------------------------
(* PATCH /auth/users/{user_id}/approval, POST /auth/users, POST /auth/signup *)

UserIds == {"root", "u1", "u2"}

valid_roles == {"ADMIN", "STAFF", "CUSTOMER"}
valid_levels == {"none", "view", "edit"}

\* str.upper() on the role strings requests carry
Upper(role) ==
    CASE role = "admin" -> "ADMIN"
      [] role = "staff" -> "STAFF"
      [] role = "customer" -> "CUSTOMER"
      [] OTHER -> role

UsersEditRefusedNever(module, level) == FALSE

\* if module == "users" and level == "edit": raise 400
UsersEditRefused(module, level) == module = "users" /\ level = "edit"

\* the validation loop over permissions.items() raises for no entry
PermissionsValid(permissions) ==
    \A module \in DOMAIN permissions :
        /\ module \in PERMISSION_MODULES
        /\ permissions[module] \in valid_levels
        /\ ~UsersEditRefused(module, permissions[module])

\* get_current_admin: the caller's row exists and its role is ADMIN
GetCurrentAdmin(actor) ==
    actor \in DOMAIN user /\ GetRoleString(user[actor].role) = "ADMIN"

\* update_user_approval from the approval test to `if not update_dict`:
\* the 400 it raises, or the update_dict it builds from the row it read
UpdateDict(existing, is_approved, role, permissions) ==
    LET declines == ~IsNone(is_approved) /\ existing.isApproved /\ ~is_approved[1]
        role_upper == Upper(role)
        bad_role == role # "" /\ role_upper \notin valid_roles
        given == ~IsNone(permissions) /\ DictTruthy(permissions[1])
        target_role == IF role # "" THEN role_upper ELSE existing.role
        bad_permissions ==
            given /\ (target_role # "STAFF" \/ ~PermissionsValid(permissions[1]))
        role_permissions ==
            IF role = "" \/ role_upper = "ADMIN" THEN <<>>
            ELSE IF role_upper = "STAFF"
                 THEN IF ~given /\ ~Truthy(existing.permissions)
                      THEN <<Json(DEFAULT_STAFF_PERMISSIONS)>> ELSE <<>>
                 ELSE <<JsonNull>>
        update_dict ==
            [isApproved |-> is_approved,
             role |-> IF role = "" THEN "" ELSE role_upper,
             permissions |-> IF given THEN <<Json(permissions[1])>> ELSE role_permissions]
    IN  IF declines \/ bad_role \/ bad_permissions \/ update_dict = NoUpdate
        THEN [error |-> "BadRequest", update |-> NoUpdate]
        ELSE [error |-> "", update |-> update_dict]

\* prisma.user.update(where={"id": user_id}, data=update_dict)
ApplyUpdate(row, update_dict) ==
    [role |-> IF update_dict.role = "" THEN row.role ELSE update_dict.role,
     isApproved |-> IF IsNone(update_dict.isApproved) THEN row.isApproved
                    ELSE update_dict.isApproved[1],
     permissions |-> IF IsNone(update_dict.permissions) THEN row.permissions
                     ELSE update_dict.permissions[1]]

\* the request arrives: get_current_admin, find_unique, validation
UpdateUserApprovalFind(s, actor, uid, is_approved, role, permissions) ==
    /\ Free(s)
    /\ started' = started + 1
    /\ LET kind == "update_user_approval"
           r == [AuthReturn(kind, "", uid, "", "") EXCEPT
                     !.role = Upper(role), !.permissions = permissions]
       IN  req' = [req EXCEPT ![s] =
               IF ~GetCurrentAdmin(actor) THEN [r EXCEPT !.outcome = "Forbidden"]
               ELSE IF uid \notin DOMAIN user THEN [r EXCEPT !.outcome = "NotFound"]
               ELSE IF uid = actor THEN [r EXCEPT !.outcome = "BadRequest"]
               ELSE LET d == UpdateDict(user[uid], is_approved, role, permissions)
                    IN  IF d.error # "" THEN [r EXCEPT !.outcome = d.error]
                        ELSE [r EXCEPT !.pc = "user_update", !.update = d.update]]
    /\ UNCHANGED <<product, productvariant, stockadjustment, order, orderitem,
                   orderstatushistory, nextOrder, user, otpverification,
                   emailVerified>>

\* prisma.user.update; when the row was deleted meanwhile nothing is written
\* and the handler ends in its `except Exception` with a 500
UpdateUserApprovalUpdate(s) ==
    /\ req[s].kind = "update_user_approval"
    /\ req[s].pc = "user_update"
    /\ IF req[s].userId \in DOMAIN user
       THEN /\ user' = [user EXCEPT ![req[s].userId] = ApplyUpdate(@, req[s].update)]
            /\ req' = [req EXCEPT ![s] = [@ EXCEPT !.pc = "done", !.outcome = "ok",
                                                    !.update = NoUpdate]]
       ELSE /\ UNCHANGED user
            /\ req' = [req EXCEPT ![s] = [@ EXCEPT !.pc = "done", !.outcome = "Error",
                                                    !.update = NoUpdate]]
    /\ UNCHANGED <<product, productvariant, stockadjustment, order, orderitem,
                   orderstatushistory, started, nextOrder,
                   otpverification, emailVerified>>

\* the id Supabase gives the next new user
FreshUserId == CHOOSE uid \in UserIds : uid \notin DOMAIN user

\* create_user_by_admin: the permissions it stores for the role, <<>> on a 400
CreatePermissions(role_upper, permissions) ==
    IF role_upper # "STAFF" THEN <<JsonNull>>
    ELSE IF ~IsNone(permissions) /\ DictTruthy(permissions[1])
         THEN IF PermissionsValid(permissions[1]) THEN <<Json(permissions[1])>> ELSE <<>>
         ELSE <<Json(DEFAULT_STAFF_PERMISSIONS)>>

CreateUserByAdmin(s, actor, role, is_approved, permissions) ==
    /\ Free(s)
    /\ UserIds \ DOMAIN user # {}
    /\ started' = started + 1
    /\ LET kind == "create_user_by_admin"
           role_upper == Upper(role)
           stored == CreatePermissions(role_upper, permissions)
           r == [AuthReturn(kind, "", NoId, "", "") EXCEPT
                     !.role = role_upper, !.permissions = permissions]
       IN  IF ~GetCurrentAdmin(actor)
           THEN /\ req' = [req EXCEPT ![s] = [r EXCEPT !.outcome = "Forbidden"]]
                /\ UNCHANGED user
           ELSE IF role_upper \notin valid_roles \/ IsNone(stored)
           THEN /\ req' = [req EXCEPT ![s] = [r EXCEPT !.outcome = "BadRequest"]]
                /\ UNCHANGED user
           ELSE /\ user' = user @@ (FreshUserId :> UserRow(role_upper, is_approved, stored[1]))
                /\ req' = [req EXCEPT ![s] =
                        [r EXCEPT !.outcome = "ok", !.userId = FreshUserId]]
    /\ UNCHANGED <<product, productvariant, stockadjustment, order, orderitem,
                   orderstatushistory, nextOrder,
                   otpverification, emailVerified>>

\* delete_user: get_current_admin, the test against the caller's own id,
\* find_unique of the row
DeleteUserFind(s, actor, uid) ==
    /\ Free(s)
    /\ started' = started + 1
    /\ LET r == AuthReturn("delete_user", "", uid, "", "")
       IN  req' = [req EXCEPT ![s] =
               IF ~GetCurrentAdmin(actor) THEN [r EXCEPT !.outcome = "Forbidden"]
               ELSE IF uid = actor THEN [r EXCEPT !.outcome = "BadRequest"]
               ELSE IF uid \notin DOMAIN user THEN [r EXCEPT !.outcome = "NotFound"]
               ELSE [r EXCEPT !.pc = "user_delete"]]
    /\ UNCHANGED <<product, productvariant, stockadjustment, order, orderitem,
                   orderstatushistory, nextOrder, user, otpverification,
                   emailVerified>>

\* after the calls to Supabase: prisma.user.delete(where={"id": user_id}).
\* When the row is already gone nothing is deleted; whether the call then
\* raises (500) or returns None (200) is the client library's choice.
DeleteUserDelete(s) ==
    /\ req[s].kind = "delete_user"
    /\ req[s].pc = "user_delete"
    /\ IF req[s].userId \in DOMAIN user
       THEN /\ user' = [u \in DOMAIN user \ {req[s].userId} |-> user[u]]
            /\ emailVerified' = emailVerified \ {req[s].userId}
            /\ req' = [req EXCEPT ![s] = [@ EXCEPT !.pc = "done", !.outcome = "ok"]]
       ELSE /\ UNCHANGED <<user, emailVerified>>
            /\ \E outcome \in {"ok", "Error"} :
                   req' = [req EXCEPT ![s] = [@ EXCEPT !.pc = "done", !.outcome = outcome]]
    /\ UNCHANGED <<product, productvariant, stockadjustment, order, orderitem,
                   orderstatushistory, started, nextOrder, otpverification>>

\* signup: a CUSTOMER row waiting for approval
Signup(s) ==
    /\ Free(s)
    /\ UserIds \ DOMAIN user # {}
    /\ started' = started + 1
    /\ user' = user @@ (FreshUserId :> UserRow("CUSTOMER", FALSE, JsonNull))
    /\ req' = [req EXCEPT ![s] = AuthReturn("signup", "ok", FreshUserId, "", "")]
    /\ UNCHANGED <<product, productvariant, stockadjustment, order, orderitem,
                   orderstatushistory, nextOrder,
                   otpverification, emailVerified>>

----------------------------------------------------------------------------
(* POST /auth/signup-with-otp, /auth/verify-otp, /auth/resend-otp, for one
   email address *)

\* generate_otp(): six random digits
OtpCodes == {"111111", "222222"}
\* the type of the codes of a signup; resend_otp also takes PASSWORD_RESET,
\* whose rows verify_otp never reads
OtpTypes == {"SIGNUP"}

\* the id Supabase gives the account of the email address
OtpUserId == "u2"

\* a row of OtpVerification; no handler sets verified, it stays False
OtpRow(id, type, code, attempts) ==
    [id |-> id, type |-> type, code |-> code, attempts |-> attempts]

\* prisma.otpverification.find_first(where type, order createdAt desc)
FindFirstOtp(type) ==
    LET rows == SelectSeq(otpverification, LAMBDA row : row.type = type)
    IN  IF rows = <<>> THEN <<>> ELSE <<rows[Len(rows)]>>

\* prisma.otpverification.delete_many(where type)
DeleteManyOtp(type) == SelectSeq(otpverification, LAMBDA row : row.type # type)

\* prisma.user.find_first(where email): the emailVerified of the row, if any
FindFirstUser ==
    IF OtpUserId \in DOMAIN user THEN <<OtpUserId \in emailVerified>> ELSE <<>>

\* `if otp_record.attempts >= 5`
TooManyAttempts(otp_record) == otp_record.attempts >= 5

\* data={"attempts": otp_record.attempts + 1}, on the row the handler read
IncrementAttempts(rows, otp_record) ==
    [i \in DOMAIN rows |->
        IF rows[i].id = otp_record.id
        THEN [rows[i] EXCEPT !.attempts = otp_record.attempts + 1]
        ELSE rows[i]]

\* signup_with_otp arrives: the user and the latest code of the email are
\* read; recent says whether that code is less than 60 seconds old
SignupWithOtpFind(s, recent) ==
    /\ Free(s)
    /\ started' = started + 1
    /\ LET r == [IdleReq EXCEPT !.kind = "signup_with_otp", !.type = "SIGNUP",
                                !.now = started + 1]
           existing_user == FindFirstUser
           existing_otp == FindFirstOtp("SIGNUP")
       IN  req' = [req EXCEPT ![s] =
               IF ~IsNone(existing_user) /\ existing_user[1]
               THEN [r EXCEPT !.outcome = "BadRequest"]
               ELSE IF ~IsNone(existing_otp) /\ recent
               THEN [r EXCEPT !.outcome = "TooManyRequests"]
               ELSE [r EXCEPT !.pc = "signup_user", !.existing_user = existing_user]]
    /\ UNCHANGED <<product, productvariant, stockadjustment, order, orderitem,
                   orderstatushistory, nextOrder, user, otpverification,
                   emailVerified>>

\* the calls to Supabase, which may fail (500), then prisma.user.create of
\* the CUSTOMER row when none was found; a row created meanwhile makes the
\* create raise, and the handler goes on to update its name and phone
SignupWithOtpUser(s) ==
    /\ req[s].kind = "signup_with_otp"
    /\ req[s].pc = "signup_user"
    /\ \E supabase_ok \in BOOLEAN :
           IF ~supabase_ok
           THEN /\ req' = [req EXCEPT ![s] = Return(s, "Error")]
                /\ UNCHANGED user
           ELSE /\ req' = [req EXCEPT ![s].pc = "otp_delete_old"]
                /\ IF IsNone(req[s].existing_user) /\ OtpUserId \notin DOMAIN user
                   THEN user' = user @@ (OtpUserId :> UserRow("CUSTOMER", TRUE, JsonNull))
                   ELSE UNCHANGED user
    /\ UNCHANGED <<product, productvariant, stockadjustment, order, orderitem,
                   orderstatushistory, started, nextOrder, otpverification,
                   emailVerified>>

\* resend_otp arrives: the user and the latest code of the type are read
ResendOtpFind(s, type, recent) ==
    /\ Free(s)
    /\ started' = started + 1
    /\ LET r == [IdleReq EXCEPT !.kind = "resend_otp", !.type = type,
                                !.now = started + 1]
           found == FindFirstUser
           last_otp == FindFirstOtp(type)
       IN  req' = [req EXCEPT ![s] =
               IF IsNone(found) THEN [r EXCEPT !.outcome = "NotFound"]
               ELSE IF type = "SIGNUP" /\ found[1]
               THEN [r EXCEPT !.outcome = "BadRequest"]
               ELSE IF ~IsNone(last_otp) /\ recent
               THEN [r EXCEPT !.outcome = "TooManyRequests"]
               ELSE [r EXCEPT !.pc = "otp_delete_old"]]
    /\ UNCHANGED <<product, productvariant, stockadjustment, order, orderitem,
                   orderstatushistory, nextOrder, user, otpverification,
                   emailVerified>>

\* both handlers: prisma.otpverification.delete_many of the old codes
OtpDeleteMany(s) ==
    /\ req[s].kind \in {"signup_with_otp", "resend_otp"}
    /\ req[s].pc = "otp_delete_old"
    /\ otpverification' = DeleteManyOtp(req[s].type)
    /\ req' = [req EXCEPT ![s].pc = "otp_create"]
    /\ UNCHANGED <<product, productvariant, stockadjustment, order, orderitem,
                   orderstatushistory, started, nextOrder, user, emailVerified>>

\* both handlers: prisma.otpverification.create of the new code, attempts 0
OtpCreate(s) ==
    /\ req[s].kind \in {"signup_with_otp", "resend_otp"}
    /\ req[s].pc = "otp_create"
    /\ \E otp_code \in OtpCodes :
           otpverification' =
               Append(otpverification, OtpRow(req[s].now, req[s].type, otp_code, 0))
    /\ req' = [req EXCEPT ![s] = Return(s, "ok")]
    /\ UNCHANGED <<product, productvariant, stockadjustment, order, orderitem,
                   orderstatushistory, started, nextOrder, user, emailVerified>>

\* verify_otp arrives: find_first of the code, the tests of expiry and of
\* attempts, the comparison with data.code
VerifyOtpFind(s, code, expired) ==
    /\ Free(s)
    /\ started' = started + 1
    /\ LET r == [IdleReq EXCEPT !.kind = "verify_otp"]
           otp_record == FindFirstOtp("SIGNUP")
       IN  req' = [req EXCEPT ![s] =
               IF IsNone(otp_record) THEN [r EXCEPT !.outcome = "NoPendingVerification"]
               ELSE IF expired THEN [r EXCEPT !.outcome = "Expired"]
               ELSE IF TooManyAttempts(otp_record[1])
               THEN [r EXCEPT !.outcome = "TooManyAttempts"]
               ELSE IF otp_record[1].code # code
               THEN [r EXCEPT !.pc = "otp_update", !.otp_record = otp_record]
               ELSE [r EXCEPT !.pc = "otp_cleanup", !.otp_record = otp_record]]
    /\ UNCHANGED <<product, productvariant, stockadjustment, order, orderitem,
                   orderstatushistory, nextOrder, user, otpverification,
                   emailVerified>>

\* prisma.otpverification.update(where id, data attempts), then the 400;
\* a row deleted meanwhile is not written
VerifyOtpUpdate(s) ==
    /\ req[s].kind = "verify_otp"
    /\ req[s].pc = "otp_update"
    /\ otpverification' = IncrementAttempts(otpverification, req[s].otp_record[1])
    /\ req' = [req EXCEPT ![s] = Return(s, "InvalidCode")]
    /\ UNCHANGED <<product, productvariant, stockadjustment, order, orderitem,
                   orderstatushistory, started, nextOrder, user, emailVerified>>

\* the code matched: prisma.otpverification.delete_many of the SIGNUP codes
VerifyOtpDeleteMany(s) ==
    /\ req[s].kind = "verify_otp"
    /\ req[s].pc = "otp_cleanup"
    /\ otpverification' = DeleteManyOtp("SIGNUP")
    /\ req' = [req EXCEPT ![s].pc = "verify_user"]
    /\ UNCHANGED <<product, productvariant, stockadjustment, order, orderitem,
                   orderstatushistory, started, nextOrder, user, emailVerified>>

\* prisma.user.find_first and, when found, prisma.user.update(emailVerified)
VerifyOtpUser(s) ==
    /\ req[s].kind = "verify_otp"
    /\ req[s].pc = "verify_user"
    /\ emailVerified' = IF IsNone(FindFirstUser) THEN emailVerified
                        ELSE emailVerified \cup {OtpUserId}
    /\ req' = [req EXCEPT ![s] = Return(s, "ok")]
    /\ UNCHANGED <<product, productvariant, stockadjustment, order, orderitem,
                   orderstatushistory, started, nextOrder, user, otpverification>>

----------------------------------------------------------------------------
(* The system: requests arrive and their handlers run, interleaved *)

\* the statements of a request in flight
InventoryWrites(s) ==
    \/ CreateStockAdjustmentWrite(s)
    \/ QuickStockUpdateWrite(s)

CreateOrderSteps(s) ==
    \/ CreateOrderFindItem(s)
    \/ CreateOrderReduceStock(s)
    \/ CreateOrderCommit(s)

UpdateOrderStatusSteps(s) ==
    \/ UpdateOrderStatusUpdate(s)
    \/ UpdateOrderStatusItems(s)
    \/ UpdateOrderStatusFindItem(s)
    \/ UpdateOrderStatusReturnStock(s)
    \/ UpdateOrderStatusReduceStock(s)
    \/ UpdateOrderStatusCommit(s)

\* order ids a request may name: every order there is, and an id of no order
OrderIdInputs == DOMAIN order \cup {nextOrder}

\* Stock ledger and order state machine together
LedgerOrderItems ==
    {<<OrderItemCreate("A", NoId, 1, q)>> : q \in 1 .. MaxQty}
        \cup {<<OrderItemCreate("A", "V", 1, 1)>>}

Arrive(s) ==
    /\ started < MaxReqs
    /\ \/ \E t \in {<<"A", NoId>>, <<"A", "V">>}, q \in {0 - 1, 1} :
              CreateStockAdjustmentRead(s, t[1], t[2], q)
       \/ \E n \in {0, MaxQty} : QuickStockUpdateRead(s, "A", NoId, n)
       \/ \E items \in LedgerOrderItems : CreateOrderBegin(s, items, 0, 0, 0)
       \/ \E oid \in OrderIdInputs, st \in {"CONFIRMED", "CANCELLED"} :
              UpdateOrderStatusFind(s, oid, st)

Next ==
    \E s \in Slots :
        \/ Arrive(s)
        \/ InventoryWrites(s)
        \/ CreateOrderSteps(s)
        \/ UpdateOrderStatusSteps(s)

Spec == Init /\ [][Next]_vars

\* The inventory endpoints alone
InventoryTargets == {<<"A", NoId>>, <<"A", "V">>, <<MissingId, NoId>>, <<NoId, NoId>>}

ArriveInventory(s) ==
    /\ started < MaxReqs
    /\ \/ \E t \in InventoryTargets, q \in {0 - MaxQty, 0 - 1, 1, MaxQty} :
              CreateStockAdjustmentRead(s, t[1], t[2], q)
       \/ \E t \in {<<"A", NoId>>, <<"A", "V">>, <<"A", MissingId>>}, n \in {0, MaxQty} :
              QuickStockUpdateRead(s, t[1], t[2], n)

NextInventory ==
    \E s \in Slots :
        \/ ArriveInventory(s)
        \/ InventoryWrites(s)

SpecInventory == Init /\ [][NextInventory]_vars

\* The order endpoints alone: creation and status transitions
OrdersOrderItems ==
    {<<OrderItemCreate("A", NoId, 1, q)>> : q \in 1 .. MaxQty}
        \cup {<<OrderItemCreate("A", NoId, 1, 1), OrderItemCreate("B", NoId, 1, MaxQty)>>}

ArriveOrders(s) ==
    /\ started < MaxReqs
    /\ \/ \E items \in OrdersOrderItems : CreateOrderBegin(s, items, 0, 0, 0)
       \/ \E oid \in OrderIdInputs, st \in {"CONFIRMED", "CANCELLED"} :
              UpdateOrderStatusFind(s, oid, st)

NextOrders ==
    \E s \in Slots :
        \/ ArriveOrders(s)
        \/ CreateOrderSteps(s)
        \/ UpdateOrderStatusSteps(s)

SpecOrders == Init /\ [][NextOrders]_vars

\* One order of the last unit of A, its status transitions, and stock of A
\* taken by hand meanwhile
ArriveRestore(s) ==
    /\ started < MaxRestoreReqs
    /\ \/ CreateOrderBegin(s, <<OrderItemCreate("A", NoId, 1, 1)>>, 0, 0, 0)
       \/ \E oid \in OrderIdInputs, st \in {"CONFIRMED", "CANCELLED"} :
              UpdateOrderStatusFind(s, oid, st)
       \/ CreateStockAdjustmentRead(s, "A", NoId, 0 - 1)

NextRestore ==
    \E s \in Slots :
        \/ ArriveRestore(s)
        \/ CreateStockAdjustmentWrite(s)
        \/ CreateOrderSteps(s)
        \/ UpdateOrderStatusSteps(s)

SpecRestore == Init /\ [][NextRestore]_vars

\* Order creation with costs, and updates of an order's costs
ArriveTotals(s) ==
    /\ started < MaxReqs
    /\ \/ \E sh \in CostInputs, di \in CostInputs :
              CreateOrderBegin(s, <<OrderItemCreate("A", NoId, 1, 1)>>, sh, 0, di)
       \/ \E oid \in OrderIdInputs, sh \in Optional({MaxCost}), tx \in Optional({MaxCost}),
             di \in Optional({MaxCost}) :
              UpdateOrderFind(s, oid, sh, tx, di)

NextTotals ==
    \E s \in Slots :
        \/ ArriveTotals(s)
        \/ CreateOrderSteps(s)
        \/ UpdateOrderWrite(s)

SpecTotals == Init /\ [][NextTotals]_vars

\* The permission check over accounts as the User table may hold them: any
\* role and approval flag, and any JSON in the permissions column
EmptyDict == [m \in {} |-> ""]

JsonInputs ==
    {JsonNull, Json(EmptyDict), JsonOther,
     Json(("orders" :> "edit") @@ ("users" :> "edit")),
     Json(("orders" :> "view")),
     Json(("orders" :> "owner") @@ ("users" :> "view"))}

AccountInputs ==
    {UserRow(role, isApproved, permissions) :
        role \in valid_roles, isApproved \in BOOLEAN, permissions \in JsonInputs}

ModuleInputs == {"orders", "users"}
LevelInputs == {"view", "edit", "owner"}

InitPermissions ==
    /\ product = [p \in ProductIds |-> InitStock]
    /\ productvariant = [v \in VariantIds |-> InitStock]
    /\ stockadjustment = <<>>
    /\ order = <<>>
    /\ orderitem = <<>>
    /\ orderstatushistory = <<>>
    /\ req = [s \in Slots |-> IdleReq]
    /\ started = 0
    /\ nextOrder = 1
    /\ \E account \in AccountInputs : user = InitUsers @@ ("u1" :> account)
    /\ otpverification = <<>>
    /\ emailVerified = {}

ArrivePermissions(s) ==
    /\ started < MaxReqs
    /\ \E uid \in {"root", "u1", MissingId}, module \in ModuleInputs, level \in LevelInputs :
           PermissionCheck(s, uid, module, level)

NextPermissions == \E s \in Slots : ArrivePermissions(s)

SpecPermissions == InitPermissions /\ [][NextPermissions]_vars

\* User management: accounts are created, approved, given roles and
\* permissions, and checked
PermissionsInputs ==
    Optional({("users" :> "edit"),
              ("users" :> "view") @@ ("orders" :> "edit"),
              ("orders" :> "owner")})

ArriveAuth(s) ==
    /\ started < MaxReqs
    /\ \/ \E actor \in DOMAIN user, uid \in {"root", "u1"}, is_approved \in Optional({TRUE}),
             role \in {"", "staff", "ADMIN", "CUSTOMER"}, permissions \in PermissionsInputs :
              UpdateUserApprovalFind(s, actor, uid, is_approved, role, permissions)
       \/ \E actor \in DOMAIN user, role \in {"STAFF", "ADMIN"}, is_approved \in BOOLEAN,
             permissions \in PermissionsInputs :
              CreateUserByAdmin(s, actor, role, is_approved, permissions)
       \/ Signup(s)
       \/ \E uid \in DOMAIN user, level \in {"view", "edit"} :
              PermissionCheck(s, uid, "users", level)

NextAuth ==
    \E s \in Slots :
        \/ ArriveAuth(s)
        \/ UpdateUserApprovalUpdate(s)

SpecAuth == Init /\ [][NextAuth]_vars

\* Bulk adjustments, with single adjustments of the same counters meanwhile
BulkItemInputs ==
    {BulkStockAdjustmentItem("A", NoId, 0 - MaxQty), BulkStockAdjustmentItem("A", NoId, 1),
     BulkStockAdjustmentItem("A", "V", 0 - 1), BulkStockAdjustmentItem(MissingId, NoId, 1),
     BulkStockAdjustmentItem(NoId, NoId, 1)}

ArriveBulk(s) ==
    /\ started < MaxBulkReqs
    /\ \/ \E i \in BulkItemInputs, j \in BulkItemInputs : BulkStockAdjustmentBegin(s, <<i, j>>)
       \/ \E q \in {0 - 1, 1} : CreateStockAdjustmentRead(s, "A", NoId, q)

NextBulk ==
    \E s \in Slots :
        \/ ArriveBulk(s)
        \/ BulkStockAdjustmentRead(s)
        \/ BulkStockAdjustmentWrite(s)
        \/ CreateStockAdjustmentWrite(s)

SpecBulk == Init /\ [][NextBulk]_vars

\* One order of ScenarioQtyA x A and ScenarioQtyB x B with enough stock on
\* hand, and its status transitions; nothing else touches the counters
ScenarioItems ==
    <<OrderItemCreate("A", NoId, 1, ScenarioQtyA), OrderItemCreate("B", NoId, 1, ScenarioQtyB)>>

InitScenario ==
    /\ product = [p \in ProductIds |-> ScenarioStock]
    /\ productvariant = [v \in VariantIds |-> ScenarioStock]
    /\ stockadjustment = <<>>
    /\ order = <<>>
    /\ orderitem = <<>>
    /\ orderstatushistory = <<>>
    /\ req = [s \in Slots |-> IdleReq]
    /\ started = 0
    /\ nextOrder = 1
    /\ user = InitUsers
    /\ otpverification = <<>>
    /\ emailVerified = {}

ArriveScenario(s) ==
    /\ started < MaxReqs
    /\ \/ nextOrder = 1 /\ CreateOrderBegin(s, ScenarioItems, 0, 0, 0)
       \/ \E oid \in OrderIdInputs, st \in {"CONFIRMED", "CANCELLED"} :
              UpdateOrderStatusFind(s, oid, st)

NextScenario ==
    \E s \in Slots :
        \/ ArriveScenario(s)
        \/ CreateOrderSteps(s)
        \/ UpdateOrderStatusSteps(s)

SpecScenario == InitScenario /\ [][NextScenario]_vars

\* Orders are created, cancelled, updated and deleted
ArriveDelete(s) ==
    /\ started < MaxReqs
    /\ \/ CreateOrderBegin(s, <<OrderItemCreate("A", NoId, 1, 1)>>, 0, 0, 0)
       \/ \E oid \in OrderIdInputs, st \in {"CONFIRMED", "CANCELLED"} :
              UpdateOrderStatusFind(s, oid, st)
       \/ \E oid \in OrderIdInputs : UpdateOrderFind(s, oid, <<MaxCost>>, <<>>, <<>>)
       \/ \E oid \in OrderIdInputs : DeleteOrderFind(s, oid)

NextDelete ==
    \E s \in Slots :
        \/ ArriveDelete(s)
        \/ CreateOrderSteps(s)
        \/ UpdateOrderStatusSteps(s)
        \/ UpdateOrderWrite(s)
        \/ DeleteOrderItems(s)
        \/ DeleteOrderHistory(s)
        \/ DeleteOrderDelete(s)

SpecDelete == Init /\ [][NextDelete]_vars

\* Products are created and updated, and stock is adjusted by hand
ProductTargets == {<<"A", NoId>>, <<NewProductId, NoId>>, <<NewProductId, NewVariantId>>}

ArriveProducts(s) ==
    /\ started < MaxReqs
    /\ \/ \E category_found \in BOOLEAN, stock \in 0 .. MaxQty, variants \in {<<>>, <<1>>} :
              CreateProductCreate(s, category_found, stock, variants)
       \/ \E pid \in {"A", NewProductId, MissingId}, category_found \in BOOLEAN,
             stock \in {0, MaxQty} :
              UpdateProduct(s, pid, category_found, stock)
       \/ \E t \in ProductTargets, q \in {0 - 1, 1} :
              CreateStockAdjustmentRead(s, t[1], t[2], q)

NextProducts ==
    \E s \in Slots :
        \/ ArriveProducts(s)
        \/ CreateProductVariants(s)
        \/ CreateStockAdjustmentWrite(s)

SpecProducts == Init /\ [][NextProducts]_vars

\* Every operation that writes StockAdjustment rows, on product A
ArriveLedger(s) ==
    /\ started < MaxReqs
    /\ \/ \E q \in {0 - 1, 1} : CreateStockAdjustmentRead(s, "A", NoId, q)
       \/ BulkStockAdjustmentBegin(s, <<BulkStockAdjustmentItem("A", NoId, 1),
                                        BulkStockAdjustmentItem("A", NoId, 0 - MaxQty)>>)
       \/ \E n \in {0, MaxQty} : QuickStockUpdateRead(s, "A", NoId, n)
       \/ CreateOrderBegin(s, <<OrderItemCreate("A", NoId, 1, 1)>>, 0, 0, 0)
       \/ \E oid \in OrderIdInputs, st \in {"CONFIRMED", "CANCELLED"} :
              UpdateOrderStatusFind(s, oid, st)
       \/ UpdateProduct(s, "A", TRUE, MaxQty)

NextLedger ==
    \E s \in Slots :
        \/ ArriveLedger(s)
        \/ InventoryWrites(s)
        \/ BulkStockAdjustmentRead(s)
        \/ BulkStockAdjustmentWrite(s)
        \/ CreateOrderSteps(s)
        \/ UpdateOrderStatusSteps(s)

SpecLedger == Init /\ [][NextLedger]_vars

\* Orders whose items name rows that do not exist, and their status transitions
MissingOrderItems ==
    {<<OrderItemCreate("A", NoId, 1, 1)>>,
     <<OrderItemCreate("A", NoId, 1, 1), OrderItemCreate(MissingId, NoId, 1, 1)>>,
     <<OrderItemCreate("A", MissingId, 1, 1)>>,
     <<OrderItemCreate(NoId, NoId, 1, 1)>>}

ArriveMissing(s) ==
    /\ started < MaxReqs
    /\ \/ \E items \in MissingOrderItems : CreateOrderBegin(s, items, 0, 0, 0)
       \/ \E oid \in OrderIdInputs, st \in {"CONFIRMED", "CANCELLED"} :
              UpdateOrderStatusFind(s, oid, st)

NextMissing ==
    \E s \in Slots :
        \/ ArriveMissing(s)
        \/ CreateOrderSteps(s)
        \/ UpdateOrderStatusSteps(s)

SpecMissing == Init /\ [][NextMissing]_vars

\* One order and its transitions to SHIPPED and DELIVERED, and back to PENDING
ArriveShipping(s) ==
    /\ started < MaxReqs
    /\ \/ CreateOrderBegin(s, <<OrderItemCreate("A", NoId, 1, 1)>>, 0, 0, 0)
       \/ \E oid \in OrderIdInputs, st \in {"PENDING", "SHIPPED", "DELIVERED"} :
              UpdateOrderStatusFind(s, oid, st)

NextShipping ==
    \E s \in Slots :
        \/ ArriveShipping(s)
        \/ CreateOrderSteps(s)
        \/ UpdateOrderStatusUpdate(s)
        \/ UpdateOrderStatusCommit(s)

SpecShipping == Init /\ [][NextShipping]_vars

\* one order of one unit of A; its status moves between PENDING, SHIPPED and
\* CANCELLED
ArriveFrame(s) ==
    /\ started < MaxReqs
    /\ \/ CreateOrderBegin(s, <<OrderItemCreate("A", NoId, 1, 1)>>, 0, 0, 0)
       \/ \E oid \in OrderIdInputs, st \in {"PENDING", "SHIPPED", "CANCELLED"} :
              UpdateOrderStatusFind(s, oid, st)

NextFrame ==
    \E s \in Slots :
        \/ ArriveFrame(s)
        \/ CreateOrderSteps(s)
        \/ UpdateOrderStatusSteps(s)

SpecFrame == Init /\ [][NextFrame]_vars

\* STAFF accounts as the administrator creates and approves them, and the
\* checks the routes run for them
StaffPermissionsInputs ==
    Optional({("orders" :> "view"),
              ("orders" :> "edit") @@ ("users" :> "view"),
              ("products" :> "none")})

ArriveStaff(s) ==
    /\ started < MaxReqs
    /\ \/ \E is_approved \in BOOLEAN, permissions \in StaffPermissionsInputs :
              CreateUserByAdmin(s, "root", "STAFF", is_approved, permissions)
       \/ \E uid \in DOMAIN user, permissions \in StaffPermissionsInputs :
              UpdateUserApprovalFind(s, "root", uid, <<TRUE>>, "", permissions)
       \/ \E uid \in DOMAIN user, module \in {"orders", "products", "users"},
             level \in {"view", "edit"} :
              PermissionCheck(s, uid, module, level)

NextStaff ==
    \E s \in Slots :
        \/ ArriveStaff(s)
        \/ UpdateUserApprovalUpdate(s)

SpecStaff == Init /\ [][NextStaff]_vars

\* Orders that are created and cancelled, by requests that may overlap
ArriveCancel(s) ==
    /\ started < MaxReqs
    /\ \/ \E items \in OrdersOrderItems : CreateOrderBegin(s, items, 0, 0, 0)
       \/ \E oid \in OrderIdInputs : UpdateOrderStatusFind(s, oid, "CANCELLED")

NextCancel ==
    \E s \in Slots :
        \/ ArriveCancel(s)
        \/ CreateOrderSteps(s)
        \/ UpdateOrderStatusUpdate(s)
        \/ UpdateOrderStatusItems(s)
        \/ UpdateOrderStatusFindItem(s)
        \/ UpdateOrderStatusReturnStock(s)
        \/ UpdateOrderStatusCommit(s)

SpecCancel == Init /\ [][NextCancel]_vars

\* Administrators create administrators, change roles and delete accounts
ArriveAdmins(s) ==
    /\ started < MaxReqs
    /\ \/ \E actor \in DOMAIN user : CreateUserByAdmin(s, actor, "ADMIN", TRUE, <<>>)
       \/ \E actor \in DOMAIN user, uid \in DOMAIN user, role \in {"STAFF", "CUSTOMER"} :
              UpdateUserApprovalFind(s, actor, uid, <<>>, role, <<>>)
       \/ \E actor \in DOMAIN user, uid \in DOMAIN user : DeleteUserFind(s, actor, uid)

NextAdmins ==
    \E s \in Slots :
        \/ ArriveAdmins(s)
        \/ UpdateUserApprovalUpdate(s)
        \/ DeleteUserDelete(s)

SpecAdmins == Init /\ [][NextAdmins]_vars

\* One email address signs up, asks for codes and submits codes
ArriveOtp(s) ==
    /\ started < MaxOtpReqs
    /\ \/ \E recent \in BOOLEAN : SignupWithOtpFind(s, recent)
       \/ \E type \in OtpTypes, recent \in BOOLEAN : ResendOtpFind(s, type, recent)
       \/ \E code \in OtpCodes, expired \in BOOLEAN : VerifyOtpFind(s, code, expired)

NextOtp ==
    \E s \in Slots :
        \/ ArriveOtp(s)
        \/ SignupWithOtpUser(s)
        \/ OtpDeleteMany(s)
        \/ OtpCreate(s)
        \/ VerifyOtpUpdate(s)
        \/ VerifyOtpDeleteMany(s)
        \/ VerifyOtpUser(s)

SpecOtp == Init /\ [][NextOtp]_vars

----------------------------------------------------------------------------
(* What a reader of the database sees *)

\* the committed StockAdjustment rows, oldest first
Ledger == Committed(stockadjustment)

\* the committed OrderStatusHistory rows, oldest first
History == Committed(orderstatushistory)

\* the stock counters: <<product id, NoId>> or <<product id, variant id>>
StockTargets ==
    {<<p, NoId>> : p \in DOMAIN product} \cup {<<"A", v>> : v \in DOMAIN productvariant}

\* a row belongs to the variant it names, else to its product
RowOn(row, t) ==
    IF t[2] # NoId THEN row.variantId = t[2]
    ELSE row.variantId = NoId /\ row.productId = t[1]

LedgerOf(t) == SelectSeq(Ledger, LAMBDA row : RowOn(row, t))

Last(rows) == rows[Len(rows)]

----------------------------------------------------------------------------
(* Claims *)

C4_CounterMatchesLedger ==
    \A t \in StockTargets :
        LedgerOf(t) # <<>> => CommittedStock(t[1], t[2]) = Last(LedgerOf(t)).newStock

\* C4 witness: two requests raced on one counter (the later row does not
\* continue from the earlier one) and both rows are committed.
C4_Witness ==
    \E t \in StockTargets :
        LET rows == LedgerOf(t)
        IN  /\ Len(rows) >= 2
            /\ Last(rows).previousStock # rows[Len(rows) - 1].newStock
            /\ \A s \in Slots : req[s].pc = "done"

\* C2: product A holds its last InitStock units and two overlapping order
\* creations each buy them all: exactly one succeeds (A ends at 0 with one
\* SALE row), the other fails with NegativeStock and leaves no order, no
\* adjustment and no history row.
C2_LastUnitSoldOnce ==
    (/\ started = 2
     /\ \A s \in Slots :
            /\ req[s].kind = "create_order"
            /\ req[s].pc = "done"
            /\ req[s].items = <<OrderItemCreate("A", NoId, 1, InitStock)>>)
    => /\ Cardinality({s \in Slots : req[s].outcome = "ok"}) = 1
       /\ Cardinality({s \in Slots : req[s].outcome = "NegativeStock"}) = 1
       /\ product["A"] = 0
       /\ Len(Ledger) = 1
       /\ Ledger[1].type = "SALE" /\ Ledger[1].quantity = 0 - InitStock
       /\ Cardinality(DOMAIN order) = 1
       /\ Len(History) = 1

RECURSIVE SumQuantity(_)
SumQuantity(rows) ==
    IF rows = <<>> THEN 0 ELSE Head(rows).quantity + SumQuantity(Tail(rows))

\* C3: adjustments to one counter are never lost: every committed row
\* continues from the newStock of the row before it on the same counter (the
\* first from the initial stock), so the counter is the initial stock plus
\* all committed deltas.
C3_NoLostUpdate ==
    \A t \in StockTargets :
        LET rows == LedgerOf(t)
        IN  /\ \A i \in DOMAIN rows :
                   rows[i].previousStock = IF i = 1 THEN InitStock ELSE rows[i - 1].newStock
            /\ CommittedStock(t[1], t[2]) = InitStock + SumQuantity(rows)

C6_NegativeAdjustmentRejected ==
    [][\A s \in Slots :
          (/\ req[s].kind = "create_stock_adjustment"
           /\ req[s].pc = "adjust_write"
           /\ req[s].previousStock + req[s].quantity < 0
           /\ req'[s] # req[s])
          => /\ req'[s].pc = "done"
             /\ req'[s].outcome = "NegativeStock"
             /\ product' = product
             /\ productvariant' = productvariant
             /\ stockadjustment' = stockadjustment]_vars

\* C6 witness: an adjustment has been rejected for negative stock
C6_Witness ==
    \E s \in Slots :
        /\ req[s].kind = "create_stock_adjustment"
        /\ req[s].outcome = "NegativeStock"

\* the counter of an order item
ItemTarget(item) ==
    IF item.variantId # NoId THEN <<"A", item.variantId>> ELSE <<item.productId, NoId>>

\* C7: when an un-cancellation commits and the latest ledger row of an
\* item's counter is still that order's cancellation row (nothing adjusted
\* the counter in between), the counter is back at the value the
\* cancellation found.
C7_CancelRestoreInverse ==
    [][\A s \in Slots :
          (/\ req[s].kind = "update_order_status"
           /\ req[s].pc = "status_commit"
           /\ req[s].existing.status = "CANCELLED"
           /\ req[s].status # "CANCELLED"
           /\ req'[s].pc = "done")
          => \A k \in DOMAIN req[s].items :
                 LET t == ItemTarget(req[s].items[k])
                     rows == LedgerOf(t)
                 IN  (/\ rows # <<>>
                      /\ Last(rows).reason = "cancelled"
                      /\ Last(rows).orderId = req[s].orderId)
                     => /\ req'[s].outcome = "ok"
                        /\ (IF t[2] # NoId THEN productvariant'[t[2]] ELSE product'[t[1]])
                               = Last(rows).previousStock]_vars

\* C7 witness: an order was cancelled and then un-cancelled with nothing in
\* between on the counter of its item
C7_Witness ==
    \E t \in StockTargets :
        LET rows == LedgerOf(t)
        IN  /\ Len(rows) >= 3
            /\ Last(rows).reason = "restored"
            /\ rows[Len(rows) - 1].reason = "cancelled"
            /\ rows[Len(rows) - 1].orderId = Last(rows).orderId
            /\ order[Last(rows).orderId].status = "CONFIRMED"

HistoryCount(rows, oid) ==
    Len(SelectSeq(Committed(rows), LAMBDA row : row.orderId = oid))

\* C9: a status-transition call that succeeds adds exactly one committed
\* history row to its order, whatever the from/to pair and its stock side
\* effects; a call that fails, and every step before the call returns, adds
\* none; no other order's history changes.
C9_OneHistoryRowPerTransition ==
    [][\A s \in Slots :
          (req'[s] # req[s] /\ req'[s].kind = "update_order_status")
          => \A oid \in 1 .. nextOrder :
                 HistoryCount(orderstatushistory', oid) =
                     HistoryCount(orderstatushistory, oid)
                       + (IF /\ oid = req'[s].orderId
                             /\ req[s].kind = "update_order_status"
                             /\ req[s].pc # "done"
                             /\ req'[s].pc = "done"
                             /\ req'[s].outcome = "ok"
                          THEN 1 ELSE 0)]_vars

\* C9 witness: a same-status transition and a cancellation with stock side
\* effects have both been recorded, and a call on a missing order has failed
C9_Witness ==
    /\ \E i \in DOMAIN History : History[i].fromStatus = History[i].toStatus
    /\ \E i \in DOMAIN Ledger : Ledger[i].reason = "cancelled"
    /\ \E s \in Slots : req[s].kind = "update_order_status" /\ req[s].outcome = "NotFound"

\* C10: every stored order satisfies
\* total = subtotal + shippingCost + taxAmount - discountAmount.
C10_OrderTotal ==
    \A oid \in DOMAIN order :
        order[oid].total = order[oid].subtotal + order[oid].shippingCost
                               + order[oid].taxAmount - order[oid].discountAmount

\* C10 witness: two overlapping updates of one order's costs have both
\* returned and the order carries a discount
C10_Witness ==
    /\ \A s \in Slots : req[s].kind = "update_order" /\ req[s].outcome = "ok"
    /\ req[1].orderId = req[2].orderId
    /\ order[req[1].orderId].discountAmount > 0
    /\ order[req[1].orderId].total # order[req[1].orderId].subtotal

\* C11: an account whose role is ADMIN is allowed for every module and every
\* required level, whatever JSON its permissions column holds (NULL, empty,
\* not an object) and whatever its isApproved flag is; and every check a
\* route has run for such an account returned Allowed.
C11_AdminAlwaysAllowed ==
    /\ \A uid \in DOMAIN user :
           user[uid].role = "ADMIN" =>
               \A module \in ModuleInputs, level \in LevelInputs :
                   PermissionChecker(user[uid], module, level) = "Allowed"
    /\ \A s \in Slots :
           (/\ req[s].kind = "permission_checker"
            /\ req[s].userId \in DOMAIN user
            /\ user[req[s].userId].role = "ADMIN")
           => req[s].outcome = "Allowed"

\* C11 witness: a check has allowed an unapproved ADMIN whose permissions
\* column is not an object
C11_Witness ==
    \E s \in Slots :
        /\ req[s].kind = "permission_checker"
        /\ req[s].outcome = "Allowed"
        /\ req[s].userId = "u1"
        /\ user["u1"] = UserRow("ADMIN", FALSE, JsonOther)

\* C12: for every STAFF account and module, if the check allows edit it
\* allows view; and whenever a check has allowed a STAFF account edit on a
\* module, the check of view on that module allows it too.
C12_EditImpliesView ==
    /\ \A uid \in DOMAIN user, module \in ModuleInputs \cup {"products"} :
           (/\ user[uid].role = "STAFF"
            /\ PermissionChecker(user[uid], module, "edit") = "Allowed")
           => PermissionChecker(user[uid], module, "view") = "Allowed"
    /\ \A s \in Slots :
           (/\ req[s].kind = "permission_checker"
            /\ req[s].userId \in DOMAIN user
            /\ user[req[s].userId].role = "STAFF"
            /\ req[s].level = "edit"
            /\ req[s].outcome = "Allowed")
           => PermissionChecker(user[req[s].userId], req[s].module, "view") = "Allowed"

\* C12 witness: a check has allowed a STAFF account edit
C12_Witness ==
    \E s \in Slots :
        /\ req[s].kind = "permission_checker"
        /\ req[s].level = "edit"
        /\ req[s].outcome = "Allowed"
        /\ user[req[s].userId].role = "STAFF"

\* a permissions object that gives edit on users
UsersEdit(map) == "users" \in DOMAIN map /\ map["users"] = "edit"

\* C13: no stored account holds permissions["users"] = "edit", and every
\* request that carries it for a STAFF account (create_user_by_admin with
\* role STAFF, update_user_approval with any role) is rejected: it returns a
\* 4xx and never reaches its write.
C13_StaffNeverEditsUsers ==
    /\ \A uid \in DOMAIN user :
           user[uid].permissions.kind = "dict" => ~UsersEdit(user[uid].permissions.map)
    /\ \A s \in Slots :
           (/\ ~IsNone(req[s].permissions)
            /\ UsersEdit(req[s].permissions[1])
            /\ \/ req[s].kind = "update_user_approval"
               \/ req[s].kind = "create_user_by_admin" /\ req[s].role = "STAFF")
           => /\ req[s].pc = "done"
              /\ req[s].outcome \in {"BadRequest", "Forbidden", "NotFound"}

\* C13 witness: permissions with users = edit were refused for an existing
\* STAFF account by an administrator, while a valid permissions object has
\* been stored
C13_Witness ==
    /\ \E s \in Slots :
           /\ req[s].kind = "update_user_approval"
           /\ ~IsNone(req[s].permissions)
           /\ UsersEdit(req[s].permissions[1])
           /\ req[s].outcome = "BadRequest"
           /\ req[s].userId \in DOMAIN user
           /\ user[req[s].userId].role = "STAFF"
           /\ req[s].role = ""
    /\ \E uid \in DOMAIN user :
           /\ user[uid].permissions.kind = "dict"
           /\ user[uid].permissions.map # DEFAULT_STAFF_PERMISSIONS

\* C14: every step of a bulk adjustment that settles an item appends that
\* item to exactly one of adjustments and errors. An item without ids, with
\* a missing target or with a negative result goes to errors and the step
\* changes no counter and no ledger row; any other item is applied (one
\* ledger row, its counter written) whatever happened to the items before
\* it. When the response is built every item has exactly one entry, so
\* success_count + failed_count is the number of items.
C14_BulkItemsIndependent ==
    [][\A s \in Slots :
          (/\ req[s].kind = "bulk_stock_adjustment"
           /\ req[s].pc # "done"
           /\ req'[s] # req[s])
          => LET r == req[s]
                 item == r.items[r.idx]
                 fails ==
                     \/ item.productId = NoId /\ item.variantId = NoId
                     \/ ~TargetExists(item.productId, item.variantId)
                     \/ r.pc = "bulk_write" /\ r.previousStock + item.quantity < 0
                 settled == req'[s].pc = "done" \/ req'[s].idx = r.idx + 1
             IN  /\ fails =>
                       /\ settled
                       /\ req'[s].errors = Append(r.errors, r.idx)
                       /\ req'[s].adjustments = r.adjustments
                       /\ UNCHANGED <<product, productvariant, stockadjustment>>
                 /\ (~fails /\ r.pc = "bulk_write") =>
                       /\ settled
                       /\ req'[s].adjustments = Append(r.adjustments, r.idx)
                       /\ req'[s].errors = r.errors
                       /\ Len(stockadjustment') = Len(stockadjustment) + 1
                       /\ (IF item.variantId # NoId THEN productvariant'[item.variantId]
                           ELSE product'[item.productId]) = r.previousStock + item.quantity
                 /\ (~fails /\ r.pc = "bulk_item") =>
                       /\ ~settled
                       /\ req'[s].errors = r.errors /\ req'[s].adjustments = r.adjustments
                       /\ UNCHANGED <<product, productvariant, stockadjustment>>
                 /\ req'[s].pc = "done" =>
                       /\ Len(req'[s].adjustments) + Len(req'[s].errors) = Len(r.items)
                       /\ \A i \in DOMAIN r.items :
                              Cardinality({k \in DOMAIN req'[s].adjustments :
                                               req'[s].adjustments[k] = i})
                                + Cardinality({k \in DOMAIN req'[s].errors :
                                                   req'[s].errors[k] = i}) = 1]_vars

\* C14 witness: a bulk adjustment has returned whose first item failed for
\* negative stock and whose second item was applied
C14_Witness ==
    \E s \in Slots :
        /\ req[s].kind = "bulk_stock_adjustment"
        /\ req[s].pc = "done"
        /\ req[s].errors = <<1>>
        /\ req[s].adjustments = <<2>>
        /\ req[s].items[1].quantity = 0 - MaxQty

\* the order of the scenario has been created, cancelled and then confirmed,
\* and nothing else has happened to it
ScenarioDone ==
    /\ 1 \in DOMAIN order
    /\ orderitem[1] = ScenarioItems
    /\ SelectSeq(History, LAMBDA row : row.orderId = 1)
           = <<HistoryRow(1, "", "PENDING", 0), HistoryRow(1, "PENDING", "CANCELLED", 0),
               HistoryRow(1, "CANCELLED", "CONFIRMED", 0)>>
    /\ \A s \in Slots : req[s].pc = "done"

OrderLedger(oid) == SelectSeq(Ledger, LAMBDA row : row.orderId = oid)

Copies(rows, row) ==
    Cardinality({i \in DOMAIN rows : rows[i] = row})

CounterAt(products, variants, t) ==
    IF t[2] # NoId
    THEN IF t[2] \in DOMAIN variants THEN variants[t[2]] ELSE 0
    ELSE IF t[1] \in DOMAIN products THEN products[t[1]] ELSE 0

\* C17: every step that changes the stock counter of a product or variant
\* (a counter that appears counts from 0) commits, in that same step, a
\* StockAdjustment row on that target whose newStock is the new counter.
C17_StockChangesThroughLedger ==
    [][\A t \in StockTargets' :
           CounterAt(product', productvariant', t) # CounterAt(product, productvariant, t)
               => \E i \in DOMAIN Ledger' :
                      /\ RowOn(Ledger'[i], t)
                      /\ Ledger'[i].newStock = CounterAt(product', productvariant', t)
                      /\ Copies(Ledger', Ledger'[i]) > Copies(Ledger, Ledger'[i])]_vars

\* C18: every StockAdjustment row, committed or still in its transaction,
\* whichever operation wrote it, has newStock = previousStock + quantity.
C18_RowArithmetic ==
    \A i \in DOMAIN stockadjustment :
        stockadjustment[i].newStock
            = stockadjustment[i].previousStock + stockadjustment[i].quantity

\* C18 witness: the ledger holds a CORRECTION row of a quick update that
\* moved the counter, and a RETURN row of a cancelled order.
C18_Witness ==
    /\ \E i \in DOMAIN Ledger : Ledger[i].type = "CORRECTION" /\ Ledger[i].quantity # 0
    /\ \E i \in DOMAIN Ledger : Ledger[i].type = "RETURN" /\ Ledger[i].orderId # 0

\* the StockAdjustment rows the transaction of slot s has written so far
WrittenBy(s) == SelectSeq(stockadjustment, LAMBDA row : row.tx = s)

C22_CustomerAndPendingDenied ==
    /\ \A uid \in DOMAIN user, module \in ModuleInputs, level \in LevelInputs :
           /\ user[uid].role = "CUSTOMER"
                  => PermissionChecker(user[uid], module, level) = "AccessDenied"
           /\ (user[uid].role = "STAFF" /\ ~user[uid].isApproved)
                  => PermissionChecker(user[uid], module, level) = "PendingApproval"
    /\ \A s \in Slots :
           (/\ req[s].kind = "permission_checker"
            /\ req[s].userId \in DOMAIN user)
           => LET account == user[req[s].userId]
              IN  /\ account.role = "CUSTOMER" => req[s].outcome = "AccessDenied"
                  /\ (account.role = "STAFF" /\ ~account.isApproved)
                         => req[s].outcome = "PendingApproval"

\* C22 witness: a check of (orders, edit) has denied a STAFF account that is
\* not approved and whose permissions give edit on orders
C22_Witness ==
    \E s \in Slots :
        /\ req[s].kind = "permission_checker"
        /\ req[s].userId = "u1"
        /\ req[s].module = "orders"
        /\ req[s].level = "edit"
        /\ req[s].outcome = "PendingApproval"
        /\ user["u1"] = UserRow("STAFF", FALSE,
                                Json(("orders" :> "edit") @@ ("users" :> "edit")))

\* the check of slot s is run in this step
Checks(s) == req'[s] # req[s] /\ req'[s].kind = "permission_checker"

\* an approved STAFF account whose permissions column holds an object
ApprovedStaffWithMap(account) ==
    account.role = "STAFF" /\ account.isApproved /\ account.permissions.kind = "dict"

\* C23: for an approved STAFF account whose permissions column holds a map
\* without the key of a module, the check denies view and edit on that module
\* with "no access"; and every check a route runs for such an account on
\* such a module is denied so.
C23_MissingKeyDenied ==
    [][/\ \A uid \in DOMAIN user, module \in PERMISSION_MODULES :
              (/\ ApprovedStaffWithMap(user[uid])
               /\ module \notin DOMAIN user[uid].permissions.map)
              => /\ PermissionChecker(user[uid], module, "view") = "NoAccess"
                 /\ PermissionChecker(user[uid], module, "edit") = "NoAccess"
       /\ \A s \in Slots :
              (/\ Checks(s)
               /\ req'[s].userId \in DOMAIN user
               /\ ApprovedStaffWithMap(user[req'[s].userId])
               /\ req'[s].module \notin DOMAIN user[req'[s].userId].permissions.map)
              => req'[s].outcome = "NoAccess"]_vars

\* C23 witness: a check of products was denied to an approved STAFF account
\* whose permissions hold orders only
C23_Witness ==
    \E s \in Slots :
        /\ req[s].kind = "permission_checker"
        /\ req[s].module = "products"
        /\ req[s].outcome = "NoAccess"
        /\ req[s].userId \in DOMAIN user
        /\ user[req[s].userId] = UserRow("STAFF", TRUE, Json(("orders" :> "view")))

\* the level the check finds for the account on the module: 0, 1 or 2
StaffLevel(account, module) ==
    PermissionHierarchy(
        ModuleLevel(IF Truthy(account.permissions) THEN account.permissions.map
                    ELSE DEFAULT_STAFF_PERMISSIONS, module), 0)

\* C24: every check that does not allow answers 403 with a detail that is not
\* empty; for an approved STAFF account a denial at level none carries the
\* "no access" detail and a denial at level view, which happens when edit is
\* required, carries the "read-only" detail.
C24_DenialReasons ==
    [][\A s \in Slots :
          (Checks(s) /\ req'[s].outcome # "Allowed")
          => /\ Detail(req'[s].outcome, req'[s].module) # <<>>
             /\ \A uid \in DOMAIN user :
                    (/\ uid = req'[s].userId
                     /\ user[uid].role = "STAFF"
                     /\ user[uid].isApproved
                     /\ user[uid].permissions.kind \in {"null", "dict"})
                    => LET level == StaffLevel(user[uid], req'[s].module)
                       IN  /\ level = 0 => req'[s].outcome = "NoAccess"
                           /\ level = 1 => /\ req'[s].outcome = "ReadOnly"
                                           /\ req'[s].level = "edit"
                           /\ level # 2]_vars

\* C24 witness: a check of (orders, edit) was denied as read-only to an
\* approved STAFF account that holds view on orders
C24_Witness ==
    \E s \in Slots :
        /\ req[s].kind = "permission_checker"
        /\ req[s].module = "orders"
        /\ req[s].level = "edit"
        /\ req[s].outcome = "ReadOnly"
        /\ req[s].userId \in DOMAIN user
        /\ user[req[s].userId] = UserRow("STAFF", TRUE, Json(("orders" :> "view")))

\* C25: every account whose permissions column is not NULL has role STAFF.
C25_PermissionsOnlyOnStaff ==
    \A uid \in DOMAIN user :
        user[uid].permissions.kind # "null" => user[uid].role = "STAFF"

\* the committed RETURN rows of an order
Returns(oid) ==
    SelectSeq(Ledger, LAMBDA row : row.type = "RETURN" /\ row.orderId = oid)

C27_AnAdminRemains ==
    \E uid \in DOMAIN user : user[uid].role = "ADMIN"

\* the committed history rows of an order, oldest first
HistoryOf(oid) == SelectSeq(History, LAMBDA row : row.orderId = oid)

PlainUpdate(s) ==
    /\ req[s].kind = "update_order_status"
    /\ req[s].pc # "done"
    /\ req[s].existing.status # "CANCELLED"
    /\ req[s].status # "CANCELLED"

\* C29: a status update in which neither the status the handler found nor
\* the new status is CANCELLED is accepted when it arrives, ends in success,
\* and none of its statements changes a stock counter or a StockAdjustment
\* row, committed or not.
C29_PlainUpdateLeavesStock ==
    [][\A s \in Slots :
          /\ ( /\ Free(s)
               /\ req'[s] # req[s]
               /\ req'[s].kind = "update_order_status"
               /\ req'[s].orderId \in DOMAIN order
               /\ order[req'[s].orderId].status # "CANCELLED"
               /\ req'[s].status # "CANCELLED" )
             => req'[s].pc = "status_update"
          /\ (PlainUpdate(s) /\ req'[s] # req[s])
             => /\ product' = product
                /\ productvariant' = productvariant
                /\ stockadjustment' = stockadjustment
                /\ req'[s].pc = "done" => req'[s].outcome = "ok"]_vars

\* the order went PENDING -> SHIPPED -> PENDING and the only ledger row is
\* the one of its creation
C29_Witness ==
    /\ \E i \in DOMAIN History :
           History[i].fromStatus = "PENDING" /\ History[i].toStatus = "SHIPPED"
    /\ \E i \in DOMAIN History :
           History[i].fromStatus = "SHIPPED" /\ History[i].toStatus = "PENDING"
    /\ \A s \in Slots : req[s].pc = "done"
    /\ Len(Ledger) = 1

\* the verify_otp requests that compared a wrong code with the row and have
\* not yet written attempts
ComparedNotCounted(row) ==
    {s \in Slots : /\ req[s].kind = "verify_otp"
                   /\ req[s].pc = "otp_update"
                   /\ req[s].otp_record[1].id = row.id}

\* no row has more than 5 wrong submissions compared with it, counted in
\* attempts or not yet counted
ComparisonsBounded ==
    \A i \in DOMAIN otpverification :
        otpverification[i].attempts
            + Cardinality(ComparedNotCounted(otpverification[i])) <= 5

\* C30: for every code that was issued, (a) a wrong submission raises the
\* attempts of the row by exactly one, (b) a submission that arrives when
\* attempts is 5 or more is rejected without being compared, and attempts,
\* once 5, stays 5, and (c) the wrong submissions compared with the row,
\* those counted in attempts plus those not yet counted, are never more
\* than 5.
C30_AttemptsBoundComparisons ==
    [][\A s \in Slots :
          /\ ( /\ req[s].kind = "verify_otp"
               /\ req[s].pc = "otp_update"
               /\ req'[s].pc = "done" )
             => \A i \in DOMAIN otpverification :
                    otpverification[i].id = req[s].otp_record[1].id
                    => otpverification'[i].attempts = otpverification[i].attempts + 1
          /\ ( /\ Free(s)
               /\ req'[s] # req[s]
               /\ req'[s].kind = "verify_otp"
               /\ ~IsNone(FindFirstOtp("SIGNUP"))
               /\ FindFirstOtp("SIGNUP")[1].attempts >= 5 )
             => req'[s].pc = "done" /\ req'[s].outcome # "ok"
          /\ \A i \in DOMAIN otpverification, j \in DOMAIN otpverification' :
                 ( /\ otpverification[i].attempts = 5
                   /\ otpverification'[j].id = otpverification[i].id )
                 => otpverification'[j].attempts = 5
          /\ ComparisonsBounded']_vars

====
